---- MODULE Spec2Model ----
(***************************************************************************)
(* tater: batch driver for coverage runs.                                  *)
(*                                                                         *)
(* Six machines are modelled from the sources:                             *)
(*   - run_test        (src/src/runner.rs): the per-project process        *)
(*                     supervisor                                          *)
(*   - run_tater       (src/src/main.rs): the batch loop with the progress *)
(*                     file and the pass/fail ledgers                      *)
(*   - spawn_tarpaulin (src/src/ci/mod.rs): the or_else chain over the     *)
(*                     provider adapters and the default command           *)
(*   - get_possible_matrix_values (src/src/ci/github.rs): the resolver of  *)
(*                     matrix references, a pure function                  *)
(*   - extract_tarpaulin_commands (src/src/ci/mod.rs): the extraction of   *)
(*                     test commands from script text, a pure function     *)
(*   - read_workflow   (src/src/ci/github.rs): the command built from a    *)
(*                     parsed workflow                                     *)
(* run_tater in main.rs drives the external processes itself and does not  *)
(* call run_test, so each machine has its own specification (SpecRunTest,  *)
(* SpecTater, SpecSpawnTarpaulin, SpecMatrixValues, SpecExtractCommands,   *)
(* SpecReadWorkflow; SpecRunTestFair is run_test with fair scheduling);    *)
(* the variables of the other machines stay at their initial values.       *)
(***************************************************************************)
EXTENDS Integers, Sequences, FiniteSets, TLC

\* ------------------------------------------------------------------------
\* Bounds of the model
\* ------------------------------------------------------------------------
\* most Ok(None) polls of the wait loop in one run_test
MaxPolls == 6
\* number of projects in context.crates
MaxCrates == 2
\* most candidates a directly declared axis of the matrix has
MaxCandidates == 2
\* most entries of the include list of the matrix
MaxInclude == 2
\* most pieces of text the input of extract_tarpaulin_commands is made of
MaxPieces == 4
\* most jobs of the workflow given to read_workflow
MaxJobs == 2
\* most Ctrl-C events queued in the channel during one run
MaxSignals == 1
\* number of consecutive executions of the program (the first and resumes)
MaxRuns == 2

VARIABLES
    \* ---- run_test (runner.rs) ----
    rpc,                \* position of the main thread inside run_test
    proj,               \* the CrateSpec: [setup, teardown : BOOLEAN] (Some/None)
    gitMarker,          \* proj_dir.join(".git").exists()
    targetDir,          \* proj_dir/target exists
    guard,              \* ProjectCleanupGuard is alive
    setupRun,           \* "none" | "ran" | "failed"
    teardownRun,        \* "none" | "ran" | "failed"
    tarp,               \* the child: "none"|"running"|"exited"|"reaped"|"killed"
    status,             \* exit status of the child: "none"|"success"|"failure"
    stdout_reading,     \* reader thread: "none"|"running"|"finished"|"joined"
    stderr_reading,     \* reader thread: "none"|"running"|"finished"|"joined"
    time_doing_nothing, \* the stall counter
    samples,            \* what each Ok(None) poll sampled: "none"|"idle"|"busy"
    logFile,            \* <results>/<name>/<name>.log has been written
    found_log,          \* the artifact was relocated
    result,             \* what run_test returned
    \* ---- run_tater (main.rs) ----
    pc,                 \* position of the main thread inside run_tater
    progressFile,       \* <output>/progress: [exists, data]
    passFile,           \* <output>/pass: sequence of lines
    failFile,           \* <output>/fail: sequence of lines
    dirs,               \* per project: [dir, git : BOOLEAN]
    rx,                 \* Ctrl-C events waiting in the channel
    start_from,         \* index read by get_progress
    i,                  \* loop index (0-based, as in the source)
    exit_index,         \* index offered to the check after the project
    failures,           \* failure counter
    tarpStatus,         \* exit status of the last coverage run in run_tater
    tarpFound,          \* found_log of the last coverage run in run_tater
    exitKind,           \* how the current run of the program ended
    runs,               \* executions of the program started so far
    child,              \* external process run_tater waits for: "none"|"git"|"cargo"
    visited,            \* indices the loop body was entered for, this run
    offered,            \* indices passed to should_exit, this run, in order
    atStart,            \* the files as they were when this run started
    \* ---- spawn_tarpaulin (ci/mod.rs) ----
    cpc,                \* the call of the or_else chain that is next
    repo,               \* per provider, what its CI file in the project holds
    given,              \* jobs, context.args and spec.args of the call
    spawnOk,            \* per caller of cmd.spawn(): whether the spawn succeeds
    consulted,          \* the calls made so far and what each returned
    chainResult,        \* what spawn_tarpaulin returned
    \* ---- Job::get_possible_matrix_values (ci/github.rs) ----
    mpc,                \* "call" before the function is applied, then "returned"
    matrix,             \* self.strategy.matrix: [elements, include]
    var,                \* the reference, as its words and "." separators
    matrixResult,       \* the Option<Vec<MatrixValue>> returned
    \* ---- extract_tarpaulin_commands (ci/mod.rs) ----
    epc,                \* "call", then "extracted", then "again"
    input,              \* the text given, as its characters and words
    commands,           \* the Vec<String> returned for input
    again,              \* per returned string, what the function returns for it
    \* ---- read_workflow (ci/github.rs) ----
    wpc,                \* "call" before the function is applied, then "returned"
    workflow,           \* the parsed Workflow: [jobs, working_directory]
    wfSpawnOk,          \* whether cmd.spawn() succeeds
    wfResult            \* the io::Result returned and the command as built

runnerVars == <<rpc, proj, gitMarker, targetDir, guard, setupRun, teardownRun,
                tarp, status, stdout_reading, stderr_reading,
                time_doing_nothing, samples, logFile, found_log, result>>

taterVars == <<pc, progressFile, passFile, failFile, dirs, rx, start_from, i,
               exit_index, failures, tarpStatus, tarpFound, exitKind, runs,
               child, visited, offered, atStart>>

chainVars == <<cpc, repo, given, spawnOk, consulted, chainResult>>

matrixVars == <<mpc, matrix, var, matrixResult>>

extractVars == <<epc, input, commands, again>>

workflowVars == <<wpc, workflow, wfSpawnOk, wfResult>>

vars == <<runnerVars, taterVars, chainVars, matrixVars, extractVars,
          workflowVars>>

\* the variables of the other machines, which a step of one machine leaves
\* alone
besidesRunner ==
    <<taterVars, chainVars, matrixVars, extractVars, workflowVars>>
besidesTater ==
    <<runnerVars, chainVars, matrixVars, extractVars, workflowVars>>
besidesChain ==
    <<runnerVars, taterVars, matrixVars, extractVars, workflowVars>>
besidesMatrix ==
    <<runnerVars, taterVars, chainVars, extractVars, workflowVars>>
besidesExtract ==
    <<runnerVars, taterVars, chainVars, matrixVars, workflowVars>>
besidesWorkflow ==
    <<runnerVars, taterVars, chainVars, matrixVars, extractVars>>

\* ------------------------------------------------------------------------
\* run_test   (src/src/runner.rs)
\* ------------------------------------------------------------------------

\* variant of IsIdle that takes no sample for an idle one
IsIdle_Mut(s) == FALSE

\* runner.rs:168  proc.cpu_usage() < 0.1, on the sample of one poll
IsIdle(s) == s = "idle"

\* variant of StallExceeded with the comparison off by one
StallExceeded_Mut(n) == n >= 5

\* runner.rs:175  if time_doing_nothing > 5
StallExceeded(n) == n > 5

\* variant of NextCounter that keeps the count on a busy sample
NextCounter_Mut(n, s) ==
    IF s = "none" THEN n
    ELSE IF IsIdle(s) THEN n + 1 ELSE n

\* runner.rs:167-173  the counter after one Ok(None) poll; no update when
\* system.process() finds no entry for the child
NextCounter(n, s) ==
    IF s = "none" THEN n
    ELSE IF IsIdle(s) THEN n + 1 ELSE 0

\* variant of DropGuard whose drop leaves the directory in place
DropGuard_Mut ==
    /\ guard' = FALSE
    /\ targetDir' = targetDir

\* runner.rs:60-68  every return after line 126 drops the guard:
\* remove_dir_all(target)
DropGuard ==
    /\ guard' = FALSE
    /\ targetDir' = IF guard THEN FALSE ELSE targetDir

Return(r) ==
    /\ rpc' = "done"
    /\ result' = r
    /\ DropGuard

\* the state of run_test when the function is entered
InitRunner ==
    /\ rpc = "clone"
    /\ proj \in [setup : BOOLEAN, teardown : BOOLEAN]
    /\ gitMarker \in BOOLEAN
    /\ targetDir \in BOOLEAN
    /\ (targetDir => gitMarker)
    /\ guard = FALSE
    /\ setupRun = "none"
    /\ teardownRun = "none"
    /\ tarp = "none"
    /\ status = "none"
    /\ stdout_reading = "none"
    /\ stderr_reading = "none"
    /\ time_doing_nothing = 0
    /\ samples = << >>
    /\ logFile = FALSE
    /\ found_log = FALSE
    /\ result = "none"

\* runner.rs:76-106  outcomes of clone_project
CloneOutcomes == {"spawn_failed", "wait_failed", "nonzero", "cloned"}

\* runner.rs:119-126  reuse or clone, then create the guard
CloneStep ==
    /\ UNCHANGED besidesRunner
    /\ rpc = "clone"
    /\ IF gitMarker
       THEN /\ rpc' = "setup"
            /\ guard' = TRUE
            /\ UNCHANGED <<gitMarker, result, targetDir>>
       ELSE \E o \in CloneOutcomes :
              IF o = "cloned"
              THEN /\ gitMarker' = TRUE
                   /\ rpc' = "setup"
                   /\ guard' = TRUE
                   /\ UNCHANGED <<result, targetDir>>
              ELSE /\ rpc' = "done"
                   /\ result' = "Git"
                   /\ UNCHANGED <<gitMarker, guard, targetDir>>
    /\ UNCHANGED <<proj, setupRun, teardownRun, tarp, status, stdout_reading,
                   stderr_reading, time_doing_nothing, samples, logFile,
                   found_log>>

\* runner.rs:128-137  the setup snippet; only a launch failure is an error
SetupStep ==
    /\ UNCHANGED besidesRunner
    /\ rpc = "setup"
    /\ IF proj.setup
       THEN \E launched \in BOOLEAN :
              IF launched
              THEN /\ setupRun' = "ran"
                   /\ rpc' = "spawn"
                   /\ UNCHANGED <<result, guard, targetDir>>
              ELSE /\ setupRun' = "failed"
                   /\ Return("Setup")
       ELSE /\ rpc' = "spawn"
            /\ UNCHANGED <<setupRun, result, guard, targetDir>>
    /\ UNCHANGED <<proj, gitMarker, teardownRun, tarp, status, stdout_reading,
                   stderr_reading, time_doing_nothing, samples, logFile,
                   found_log>>

\* runner.rs:139-145  ci::spawn_tarpaulin(..).expect(..): a child or a panic;
\* the build the child starts creates proj_dir/target
SpawnStep ==
    /\ UNCHANGED besidesRunner
    /\ rpc = "spawn"
    /\ \E spawned \in BOOLEAN :
         IF spawned
         THEN /\ tarp' = "running"
              /\ rpc' = "stdout_spawn"
              /\ targetDir' = TRUE
              /\ UNCHANGED <<result, guard>>
         ELSE /\ tarp' = "none"
              /\ Return("panic")
    /\ UNCHANGED <<proj, gitMarker, setupRun, teardownRun, status,
                   stdout_reading, stderr_reading, time_doing_nothing,
                   samples, logFile, found_log>>

\* runner.rs:147-151  thread::spawn of the stdout reader
StdoutSpawn ==
    /\ UNCHANGED besidesRunner
    /\ rpc = "stdout_spawn"
    /\ stdout_reading' = "running"
    /\ rpc' = "stderr_spawn"
    /\ UNCHANGED <<proj, gitMarker, targetDir, guard, setupRun, teardownRun,
                   tarp, status, stderr_reading, time_doing_nothing, samples,
                   logFile, found_log, result>>

\* variant of StderrSpawn that enters the loop without starting the reader
StderrSpawn_Mut ==
    /\ UNCHANGED besidesRunner
    /\ rpc = "stderr_spawn"
    /\ time_doing_nothing' = 0
    /\ rpc' = "wait"
    /\ UNCHANGED <<proj, gitMarker, targetDir, guard, setupRun, teardownRun,
                   tarp, status, stdout_reading, stderr_reading, samples,
                   logFile, found_log, result>>

\* runner.rs:153-159  thread::spawn of the stderr reader, counter := 0
StderrSpawn ==
    /\ UNCHANGED besidesRunner
    /\ rpc = "stderr_spawn"
    /\ stderr_reading' = "running"
    /\ time_doing_nothing' = 0
    /\ rpc' = "wait"
    /\ UNCHANGED <<proj, gitMarker, targetDir, guard, setupRun, teardownRun,
                   tarp, status, stdout_reading, samples, logFile, found_log,
                   result>>

\* the child process ends by itself, with either exit status
TarpExits ==
    /\ UNCHANGED besidesRunner
    /\ tarp = "running"
    /\ rpc \in {"stdout_spawn", "stderr_spawn", "wait"}
    /\ tarp' = "exited"
    /\ \E s \in {"success", "failure"} : status' = s
    /\ UNCHANGED <<rpc, proj, gitMarker, targetDir, guard, setupRun,
                   teardownRun, stdout_reading, stderr_reading, time_doing_nothing,
                   samples, logFile, found_log, result>>

\* runner.rs:149  read_to_end returns once the child's end of the pipe closed
StdoutEOF ==
    /\ UNCHANGED besidesRunner
    /\ stdout_reading = "running"
    /\ tarp \in {"exited", "reaped", "killed"}
    /\ stdout_reading' = "finished"
    /\ UNCHANGED <<rpc, proj, gitMarker, targetDir, guard, setupRun,
                   teardownRun, tarp, status, stderr_reading,
                   time_doing_nothing, samples, logFile, found_log, result>>

\* runner.rs:155  the same for stderr
StderrEOF ==
    /\ UNCHANGED besidesRunner
    /\ stderr_reading = "running"
    /\ tarp \in {"exited", "reaped", "killed"}
    /\ stderr_reading' = "finished"
    /\ UNCHANGED <<rpc, proj, gitMarker, targetDir, guard, setupRun,
                   teardownRun, tarp, status, stdout_reading,
                   time_doing_nothing, samples, logFile, found_log, result>>

\* runner.rs:160-164  one pass of the loop: sleep, try_wait gives Some(status)
PollExited ==
    /\ UNCHANGED besidesRunner
    /\ rpc = "wait"
    /\ tarp = "exited"
    /\ tarp' = "reaped"
    /\ rpc' = "teardown"
    /\ UNCHANGED <<proj, gitMarker, targetDir, guard, setupRun, teardownRun,
                   status, stdout_reading, stderr_reading, time_doing_nothing,
                   samples, logFile, found_log, result>>

\* runner.rs:160-181  one pass of the loop: sleep, try_wait gives None, the
\* CPU sample updates the counter, the child is killed once it exceeds 5
PollAlive ==
    /\ UNCHANGED besidesRunner
    /\ rpc = "wait"
    /\ tarp = "running"
    /\ Len(samples) < MaxPolls
    /\ \E s \in {"none", "idle", "busy"} :
         /\ samples' = Append(samples, s)
         /\ time_doing_nothing' = NextCounter(time_doing_nothing, s)
         /\ IF s # "none" /\ StallExceeded(NextCounter(time_doing_nothing, s))
            THEN /\ tarp' = "killed"
                 /\ Return("Stalled")
            ELSE /\ UNCHANGED <<tarp, targetDir, guard, rpc, result>>
    /\ UNCHANGED <<proj, gitMarker, setupRun, teardownRun, status,
                   stdout_reading, stderr_reading, logFile, found_log>>

\* variant of PollError that leaves the loop for the teardown instead of
\* returning
PollError_Mut ==
    /\ UNCHANGED besidesRunner
    /\ rpc = "wait"
    /\ tarp \in {"running", "exited"}
    /\ rpc' = "teardown"
    /\ UNCHANGED <<proj, gitMarker, targetDir, guard, setupRun, teardownRun,
                   tarp, status, stdout_reading, stderr_reading,
                   time_doing_nothing, samples, logFile, found_log, result>>

\* runner.rs:182-187  one pass of the loop: try_wait itself fails
PollError ==
    /\ UNCHANGED besidesRunner
    /\ rpc = "wait"
    /\ tarp \in {"running", "exited"}
    /\ Return("Tarpaulin")
    /\ UNCHANGED <<proj, gitMarker, setupRun, teardownRun, tarp, status,
                   stdout_reading, stderr_reading, time_doing_nothing,
                   samples, logFile, found_log>>

\* variant of TeardownStep that returns an error when the snippet fails to
\* launch
TeardownStep_Mut ==
    /\ UNCHANGED besidesRunner
    /\ rpc = "teardown"
    /\ IF proj.teardown
       THEN \E launched \in BOOLEAN :
              IF launched
              THEN /\ teardownRun' = "ran"
                   /\ targetDir' = FALSE
                   /\ rpc' = "join_stdout"
                   /\ UNCHANGED <<guard, result>>
              ELSE /\ teardownRun' = "failed"
                   /\ Return("Teardown")
       ELSE /\ targetDir' = FALSE
            /\ rpc' = "join_stdout"
            /\ UNCHANGED <<teardownRun, guard, result>>
    /\ UNCHANGED <<proj, gitMarker, setupRun, tarp, status, stdout_reading,
                   stderr_reading, time_doing_nothing, samples, logFile,
                   found_log>>

\* runner.rs:191-200  the teardown snippet (a failure is only logged), then
\* remove_dir_all(target)
TeardownStep ==
    /\ UNCHANGED besidesRunner
    /\ rpc = "teardown"
    /\ IF proj.teardown
       THEN \E launched \in BOOLEAN :
              teardownRun' = IF launched THEN "ran" ELSE "failed"
       ELSE UNCHANGED teardownRun
    /\ targetDir' = FALSE
    /\ rpc' = "join_stdout"
    /\ UNCHANGED <<proj, gitMarker, guard, setupRun, tarp, status,
                   stdout_reading, stderr_reading, time_doing_nothing,
                   samples, logFile, found_log, result>>

\* runner.rs:203  stdout_reading.join(): blocks until the reader finished
JoinStdout ==
    /\ UNCHANGED besidesRunner
    /\ rpc = "join_stdout"
    /\ stdout_reading = "finished"
    /\ stdout_reading' = "joined"
    /\ rpc' = "join_stderr"
    /\ UNCHANGED <<proj, gitMarker, targetDir, guard, setupRun, teardownRun,
                   tarp, status, stderr_reading, time_doing_nothing, samples,
                   logFile, found_log, result>>

\* runner.rs:204  stderr_reading.join()
JoinStderr ==
    /\ UNCHANGED besidesRunner
    /\ rpc = "join_stderr"
    /\ stderr_reading = "finished"
    /\ stderr_reading' = "joined"
    /\ rpc' = "log"
    /\ UNCHANGED <<proj, gitMarker, targetDir, guard, setupRun, teardownRun,
                   tarp, status, stdout_reading, time_doing_nothing, samples,
                   logFile, found_log, result>>

\* runner.rs:206-212  create the log and write both streams; every I/O error
\* is an unwrap
WriteLog ==
    /\ UNCHANGED besidesRunner
    /\ rpc = "log"
    /\ \E ok \in BOOLEAN :
         IF ok
         THEN /\ logFile' = TRUE
              /\ rpc' = "scan"
              /\ UNCHANGED <<result, guard, targetDir>>
         ELSE /\ UNCHANGED logFile
              /\ Return("panic")
    /\ UNCHANGED <<proj, gitMarker, setupRun, teardownRun, tarp, status,
                   stdout_reading, stderr_reading, time_doing_nothing,
                   samples, found_log>>

\* runner.rs:232-236  the value returned after a normal exit of the child
ExitResult(st) == IF st = "success" THEN "Ok" ELSE "Failed"

\* runner.rs:214-236  scan the project directory for the artifact, relocate
\* it, and return by the exit status
ScanAndReturn ==
    /\ UNCHANGED besidesRunner
    /\ rpc = "scan"
    /\ \E readable \in BOOLEAN, artifact \in BOOLEAN, copied \in BOOLEAN :
         IF readable
         THEN /\ found_log' = (artifact /\ copied)
              /\ Return(ExitResult(status))
         ELSE /\ UNCHANGED found_log
              /\ Return("panic")
    /\ UNCHANGED <<proj, gitMarker, setupRun, teardownRun, tarp, status,
                   stdout_reading, stderr_reading, time_doing_nothing,
                   samples, logFile>>

NextRunner ==
    \/ CloneStep
    \/ SetupStep
    \/ SpawnStep
    \/ StdoutSpawn
    \/ StderrSpawn
    \/ TarpExits
    \/ StdoutEOF
    \/ StderrEOF
    \/ PollExited
    \/ PollAlive
    \/ PollError
    \/ TeardownStep
    \/ JoinStdout
    \/ JoinStderr
    \/ WriteLog
    \/ ScanAndReturn

\* ------------------------------------------------------------------------
\* run_tater   (src/src/main.rs)
\* ------------------------------------------------------------------------

\* names of the projects of the batch, context.crates in list order
NamePool == <<"a", "b", "c", "d", "e", "f">>
crates == SubSeq(NamePool, 1, MaxCrates)

\* main.rs:183  proj.name() of the project at 0-based position n
proj_name(n) == crates[n + 1]

\* the characters of a decimal digit
DigitChars == <<"0", "1", "2", "3", "4", "5", "6", "7", "8", "9">>

\* main.rs:138  index.to_string(): the decimal digits of n, no newline
RECURSIVE to_string(_)
to_string(n) ==
    IF n < 10 THEN <<DigitChars[n + 1]>>
    ELSE to_string(n \div 10) \o <<DigitChars[(n % 10) + 1]>>

\* value of one digit character, -1 for any other character
DigitValue(c) ==
    IF \E d \in 1..10 : DigitChars[d] = c
    THEN (CHOOSE d \in 1..10 : DigitChars[d] = c) - 1
    ELSE -1

\* main.rs:116  reader.lines().next(): the text before the first newline
RECURSIVE FirstLine(_)
FirstLine(data) ==
    IF data = << >> \/ Head(data) = "\n" THEN << >>
    ELSE <<Head(data)>> \o FirstLine(Tail(data))

\* main.rs:118  line.trim(): leading and trailing blanks removed
RECURSIVE TrimLeft(_)
TrimLeft(s) == IF s # << >> /\ Head(s) = " " THEN TrimLeft(Tail(s)) ELSE s

RECURSIVE TrimRight(_)
TrimRight(s) ==
    IF s # << >> /\ s[Len(s)] = " " THEN TrimRight(SubSeq(s, 1, Len(s) - 1))
    ELSE s

trim(s) == TrimRight(TrimLeft(s))

\* main.rs:118  parse::<usize>(): the value, or -1 for Err
RECURSIVE ParseDigits(_, _)
ParseDigits(s, acc) ==
    IF s = << >> THEN acc
    ELSE IF DigitValue(Head(s)) < 0 THEN -1
    ELSE ParseDigits(Tail(s), 10 * acc + DigitValue(Head(s)))

parse(s) == IF s = << >> THEN -1 ELSE ParseDigits(s, 0)

\* main.rs:113-131  get_progress: 0 for no file, an empty file or an
\* unparsable first line
get_progress(file) ==
    IF ~file.exists \/ file.data = << >> THEN 0
    ELSE LET parsed == parse(trim(FirstLine(file.data)))
         IN IF parsed < 0 THEN 0 ELSE parsed

\* variant of WriteProgress that writes the index after the one given
WriteProgress_Mut(index) == [exists |-> TRUE, data |-> to_string(index + 1)]

\* main.rs:137-139  File::create, then write_all(index.to_string())
WriteProgress(index) == [exists |-> TRUE, data |-> to_string(index)]

\* variant of should_exit that writes the progress file on every call
should_exit_Mut(file, index, events) ==
    [exit |-> events > 0,
     file |-> WriteProgress(index),
     rx |-> IF events > 0 THEN events - 1 ELSE events]

\* main.rs:133-144  should_exit: try_recv takes one event if there is one;
\* only then the progress file is written and true returned
should_exit(file, index, events) ==
    [exit |-> events > 0,
     file |-> IF events > 0 THEN WriteProgress(index) ELSE file,
     rx |-> IF events > 0 THEN events - 1 ELSE events]

\* variant of get_status_linewriter that always truncates
get_status_linewriter_Mut(lines, start_iter) == << >>

\* main.rs:146-153  get_status_linewriter: the lines of the ledger once it
\* is opened
get_status_linewriter(lines, start_iter) ==
    IF start_iter = 0 THEN << >> ELSE lines

\* variant of FirstIndex without the skip
FirstIndex_Mut(start) == 0

\* main.rs:181  .skip(start_from): the first index of the loop
FirstIndex(start) == start

\* main.rs:278  the condition of the pass branch
PassBranch(st, found) == st = "success" /\ found

\* variant of ExitIndex that advances the index on a failure too
ExitIndex_Mut(n, passed) == n + 1

\* main.rs:278-289  the index offered to the check after the project
ExitIndex(n, passed) == IF passed THEN n + 1 ELSE n

\* the contents the progress file can have when the program is started
InitialProgress ==
    {[exists |-> FALSE, data |-> << >>],
     [exists |-> TRUE, data |-> << >>],
     [exists |-> TRUE, data |-> <<"x">>],
     [exists |-> TRUE, data |-> <<" ", "1", "\n", "2">>]}
    \cup {[exists |-> TRUE, data |-> to_string(k)] : k \in 0..(MaxCrates + 1)}

NoDir == [dir |-> FALSE, git |-> FALSE]
PlainDir == [dir |-> TRUE, git |-> FALSE]
ClonedDir == [dir |-> TRUE, git |-> TRUE]

\* the projects directory when the program is first started: empty, or one
\* directory without the .git marker already there under a project's name
InitialDirs ==
    {[n \in 0..(MaxCrates - 1) |-> NoDir]}
    \cup {[n \in 0..(MaxCrates - 1) |-> IF n = k THEN PlainDir ELSE NoDir] :
            k \in 0..(MaxCrates - 1)}

InitTaterVars ==
    /\ pc = "start"
    /\ progressFile \in InitialProgress
    /\ \E old \in BOOLEAN :
         /\ passFile = IF old THEN <<"p0">> ELSE << >>
         /\ failFile = IF old THEN <<"f0">> ELSE << >>
    /\ dirs \in InitialDirs
    /\ rx = 0
    /\ start_from = 0
    /\ i = 0
    /\ exit_index = 0
    /\ failures = 0
    /\ tarpStatus = "none"
    /\ tarpFound = FALSE
    /\ exitKind = "none"
    /\ runs = 1
    /\ child = "none"
    /\ visited = << >>
    /\ offered = << >>
    /\ atStart = [progress |-> progressFile, pass |-> passFile,
                  fail |-> failFile]

\* main.rs:181  the loop goes on with index n, or ends after the last one
LoopAt(n) ==
    /\ i' = n
    /\ pc' = IF n < Len(crates) THEN "clone" ELSE "end"

\* the program ends: a return from run_tater or a panic
Exit(kind) ==
    /\ pc' = "exited"
    /\ exitKind' = kind

\* what happened to the project the loop body was last entered for
Mark(out) == [visited EXCEPT ![Len(visited)].out = out]

\* main.rs:94-100  the Ctrl-C handler sends one event into the channel
CtrlC ==
    /\ UNCHANGED besidesTater
    /\ pc # "exited"
    /\ rx < MaxSignals
    /\ rx' = rx + 1
    /\ UNCHANGED <<pc, progressFile, passFile, failFile, dirs, start_from, i,
                   exit_index, failures, tarpStatus, tarpFound, exitKind,
                   runs, child, visited, offered, atStart>>

\* main.rs:156-181  read the progress file, open both ledgers, enter the loop
StartRun ==
    /\ UNCHANGED besidesTater
    /\ pc = "start"
    /\ start_from' = get_progress(progressFile)
    /\ failFile' = get_status_linewriter(failFile, get_progress(progressFile))
    /\ passFile' = get_status_linewriter(passFile, get_progress(progressFile))
    /\ failures' = 0
    /\ visited' = << >>
    /\ offered' = << >>
    /\ atStart' = [progress |-> progressFile, pass |-> passFile,
                   fail |-> failFile]
    /\ LoopAt(FirstIndex(get_progress(progressFile)))
    /\ UNCHANGED <<progressFile, dirs, rx, exit_index, tarpStatus, tarpFound,
                   exitKind, runs, child>>

\* variant of AlreadyCloned that never finds the marker
AlreadyCloned_Mut(d) == FALSE

\* main.rs:186  proj_dir.join(".git").exists()
AlreadyCloned(d) == d.git

\* main.rs:183-202  reuse the directory that has .git, else spawn git clone
GitClone ==
    /\ UNCHANGED besidesTater
    /\ pc = "clone"
    /\ IF AlreadyCloned(dirs[i])
       THEN /\ visited' = Append(visited, [idx |-> i, out |-> "reused"])
            /\ pc' = "check1"
            /\ UNCHANGED <<child, exitKind>>
       ELSE \E spawned \in BOOLEAN :
              IF spawned
              THEN /\ visited' = Append(visited, [idx |-> i, out |-> "cloning"])
                   /\ child' = "git"
                   /\ pc' = "cloning"
                   /\ UNCHANGED exitKind
              ELSE /\ visited' = Append(visited,
                                        [idx |-> i, out |-> "spawn_failed"])
                   /\ Exit("panic")
                   /\ UNCHANGED child
    /\ UNCHANGED <<progressFile, passFile, failFile, dirs, rx, start_from, i,
                   exit_index, failures, tarpStatus, tarpFound, runs, offered,
                   atStart>>

\* variant of wait_with_output that returns while the child is still alive
wait_with_output_Mut(c) == c

\* main.rs:203, 247  wait_with_output returns once the child has ended and
\* has been reaped: no child is left
wait_with_output(c) == "none"

\* main.rs:203-211  wait_with_output blocks until git has ended; a non-zero
\* exit status is only logged
GitWait ==
    /\ UNCHANGED besidesTater
    /\ pc = "cloning"
    /\ child = "git"
    /\ child' = wait_with_output(child)
    /\ \E o \in CloneOutcomes \ {"spawn_failed"} :
         /\ visited' = Mark(o)
         /\ IF o = "wait_failed"
            THEN Exit("panic") /\ UNCHANGED dirs
            ELSE /\ pc' = "check1"
                 /\ dirs' = IF o = "cloned"
                            THEN [dirs EXCEPT ![i] = ClonedDir]
                            ELSE dirs
                 /\ UNCHANGED exitKind
    /\ UNCHANGED <<progressFile, passFile, failFile, rx, start_from, i,
                   exit_index, failures, tarpStatus, tarpFound, runs, offered,
                   atStart>>

\* main.rs:212-217  should_exit(progress, i), then skip the project whose
\* directory does not exist
CheckAfterClone ==
    /\ UNCHANGED besidesTater
    /\ pc = "check1"
    /\ offered' = Append(offered, i)
    /\ rx' = should_exit(progressFile, i, rx).rx
    /\ progressFile' = should_exit(progressFile, i, rx).file
    /\ IF should_exit(progressFile, i, rx).exit
       THEN /\ Exit("interrupted")
            /\ UNCHANGED <<i, visited>>
       ELSE /\ UNCHANGED exitKind
            /\ IF ~dirs[i].dir
               THEN /\ LoopAt(i + 1)
                    /\ visited' = Mark("skipped")
               ELSE /\ pc' = "run"
                    /\ UNCHANGED <<i, visited>>
    /\ UNCHANGED <<passFile, failFile, dirs, start_from, exit_index, failures,
                   tarpStatus, tarpFound, runs, child, atStart>>

\* main.rs:218-245  build the arguments and spawn cargo tarpaulin
SpawnTarpaulin ==
    /\ UNCHANGED besidesTater
    /\ pc = "run"
    /\ \E spawned \in BOOLEAN :
         IF spawned
         THEN /\ child' = "cargo"
              /\ pc' = "running"
              /\ UNCHANGED <<exitKind, visited>>
         ELSE /\ Exit("panic")
              /\ visited' = Mark("spawn_failed")
              /\ UNCHANGED child
    /\ UNCHANGED <<progressFile, passFile, failFile, dirs, rx, start_from, i,
                   exit_index, failures, tarpStatus, tarpFound, runs, offered,
                   atStart>>

\* variant of remove_dir_all that leaves the directory in place
remove_dir_all_Mut(d) == d

\* main.rs:280  remove_dir_all(&proj_dir): the directory is gone
remove_dir_all(d) == NoDir

\* main.rs:247-277  what the wait for the coverage run and the result files
\* can do
RunOutcomes == {"wait_failed", "log_failed", "scan_failed", "ran"}

\* main.rs:247-289  wait_with_output blocks until cargo tarpaulin has ended;
\* write the log, look for the artifact, then take the pass branch or the
\* failure branch
RunTarpaulin ==
    /\ UNCHANGED besidesTater
    /\ pc = "running"
    /\ child = "cargo"
    /\ child' = wait_with_output(child)
    /\ \E o \in RunOutcomes, st \in {"success", "failure"}, found \in BOOLEAN :
         IF o # "ran"
         THEN /\ Exit("panic")
              /\ visited' = Mark(o)
              /\ UNCHANGED <<passFile, dirs, exit_index, failures, tarpStatus,
                             tarpFound>>
         ELSE /\ tarpStatus' = st
              /\ tarpFound' = found
              /\ exit_index' = ExitIndex(i, PassBranch(st, found))
              /\ IF PassBranch(st, found)
                 THEN /\ dirs' = [dirs EXCEPT ![i] = remove_dir_all(dirs[i])]
                      /\ passFile' = Append(passFile, proj_name(i))
                      /\ visited' = Mark("passed")
                      /\ UNCHANGED failures
                 ELSE /\ failures' = failures + 1
                      /\ visited' = Mark("failed")
                      /\ UNCHANGED <<dirs, passFile>>
              /\ pc' = "check2"
              /\ UNCHANGED exitKind
    /\ UNCHANGED <<progressFile, failFile, rx, start_from, i, runs, offered,
                   atStart>>

\* main.rs:290-300  should_exit(progress, exit_index): on an event write the
\* fail ledger and return, else write it for a failed project and go on
CheckAfterProject ==
    /\ UNCHANGED besidesTater
    /\ pc = "check2"
    /\ offered' = Append(offered, exit_index)
    /\ rx' = should_exit(progressFile, exit_index, rx).rx
    /\ progressFile' = should_exit(progressFile, exit_index, rx).file
    /\ IF should_exit(progressFile, exit_index, rx).exit
       THEN /\ failFile' = Append(failFile, proj_name(i))
            /\ Exit("interrupted")
            /\ UNCHANGED i
       ELSE /\ failFile' = IF i = exit_index
                           THEN Append(failFile, proj_name(i))
                           ELSE failFile
            /\ LoopAt(i + 1)
            /\ UNCHANGED exitKind
    /\ UNCHANGED <<passFile, dirs, start_from, exit_index, failures,
                   tarpStatus, tarpFound, runs, child, visited, atStart>>

\* main.rs:301-308  the loop is over: report the failures and return
EndOfBatch ==
    /\ UNCHANGED besidesTater
    /\ pc = "end"
    /\ Exit("normal")
    /\ UNCHANGED <<progressFile, passFile, failFile, dirs, rx, start_from, i,
                   exit_index, failures, tarpStatus, tarpFound, runs, child,
                   visited, offered, atStart>>

\* main.rs:70-92  the program is started again on the same output directory,
\* with a new channel
Restart ==
    /\ UNCHANGED besidesTater
    /\ pc = "exited"
    /\ runs < MaxRuns
    /\ runs' = runs + 1
    /\ pc' = "start"
    /\ exitKind' = "none"
    /\ rx' = 0
    /\ start_from' = 0
    /\ i' = 0
    /\ exit_index' = 0
    /\ failures' = 0
    /\ tarpStatus' = "none"
    /\ tarpFound' = FALSE
    /\ child' = "none"
    /\ visited' = << >>
    /\ offered' = << >>
    /\ atStart' = [progress |-> progressFile, pass |-> passFile,
                   fail |-> failFile]
    /\ UNCHANGED <<progressFile, passFile, failFile, dirs>>

NextTater ==
    \/ CtrlC
    \/ StartRun
    \/ GitClone
    \/ GitWait
    \/ CheckAfterClone
    \/ SpawnTarpaulin
    \/ RunTarpaulin
    \/ CheckAfterProject
    \/ EndOfBatch
    \/ Restart

\* ------------------------------------------------------------------------
\* spawn_tarpaulin   (src/src/ci/mod.rs)
\* ------------------------------------------------------------------------

\* ci/mod.rs:97-99  the providers, in the order of the or_else chain
Adapters == <<"github", "gitlab", "travis">>

\* what a provider's CI file can hold: no file, a file that does not parse,
\* a file without a command to convert, a file with one
Found == {"absent", "malformed", "no_command", "command"}

\* ci/mod.rs:13-20  default_args
default_args == <<"tarpaulin", "--debug", "--color", "never">>

\* ci/mod.rs:62-81  init_command: the arguments and the layers of the
\* environment of the command, in the order they are set
init_command(g) ==
    [args |-> (IF g.jobs THEN <<"--jobs", "n">> ELSE << >>)
              \o default_args \o g.context_args \o g.spec_args,
     envs |-> <<"RUST_LOG", "spec.env", "context.env">>]

\* the arguments a provider's adapter adds for the command it found
ExtractedArgs(a) == <<"args-of-" \o a>>

\* variant of get_command that returns Ok without spawning
get_command_Mut(a, found, g, ok) ==
    [ret |-> "Ok", cmd |-> init_command(g)]

\* ci/github.rs:136-254, ci/gitlab.rs:32-65, ci/travis.rs:17-54  get_command
\* of provider a: Err(NotFound) without the file or without a command in it,
\* Err(InvalidData) for a file that does not parse, else the result of
\* cmd.spawn() on the command it built
get_command(a, found, g, ok) ==
    IF found = "absent" \/ found = "no_command"
    THEN [ret |-> "NotFound", cmd |-> [args |-> << >>, envs |-> << >>]]
    ELSE IF found = "malformed"
    THEN [ret |-> "InvalidData", cmd |-> [args |-> << >>, envs |-> << >>]]
    ELSE [ret |-> IF ok THEN "Ok" ELSE "SpawnError",
          cmd |-> [args |-> init_command(g).args \o ExtractedArgs(a),
                   envs |-> init_command(g).envs]]

\* ci/mod.rs:83-93  default_spawn: cmd.spawn() on the command of init_command
default_spawn(g, ok) ==
    [ret |-> IF ok THEN "Ok" ELSE "SpawnError", cmd |-> init_command(g)]

\* the state when spawn_tarpaulin is called
InitChain ==
    /\ cpc = 1
    /\ repo \in [github : Found, gitlab : Found, travis : Found]
    /\ given \in [jobs : BOOLEAN, context_args : {<< >>, <<"--all">>},
                  spec_args : {<< >>, <<"--lib">>}]
    /\ spawnOk \in [github : BOOLEAN, gitlab : BOOLEAN, travis : BOOLEAN,
                    default : BOOLEAN]
    /\ consulted = << >>
    /\ chainResult = [ret |-> "none", by |-> "none",
                      cmd |-> [args |-> << >>, envs |-> << >>]]

\* one link of the chain: a call that returns Ok ends it (or_else passes the
\* Ok on), any Err goes on to the next call
Link(who, r) ==
    /\ consulted' = Append(consulted, [who |-> who, ret |-> r.ret])
    /\ IF r.ret = "Ok"
       THEN /\ cpc' = 0
            /\ chainResult' = [ret |-> "Ok", by |-> who, cmd |-> r.cmd]
       ELSE /\ cpc' = cpc + 1
            /\ UNCHANGED chainResult
    /\ UNCHANGED <<repo, given, spawnOk>>

\* ci/mod.rs:101  github::get_command(..)
ConsultGithub ==
    /\ UNCHANGED besidesChain
    /\ cpc = 1
    /\ Link(Adapters[1],
            get_command(Adapters[1], repo.github, given, spawnOk.github))

\* ci/mod.rs:102  .or_else(|_| gitlab::get_command(..))
ConsultGitlab ==
    /\ UNCHANGED besidesChain
    /\ cpc = 2
    /\ Link(Adapters[2],
            get_command(Adapters[2], repo.gitlab, given, spawnOk.gitlab))

\* ci/mod.rs:103  .or_else(|_| travis::get_command(..))
ConsultTravis ==
    /\ UNCHANGED besidesChain
    /\ cpc = 3
    /\ Link(Adapters[3],
            get_command(Adapters[3], repo.travis, given, spawnOk.travis))

\* ci/mod.rs:104  .or_else(|_| default_spawn(..)): its result is the result
\* of spawn_tarpaulin
DefaultSpawn ==
    /\ UNCHANGED besidesChain
    /\ cpc = 4
    /\ consulted' = Append(consulted,
                           [who |-> "default",
                            ret |-> default_spawn(given, spawnOk.default).ret])
    /\ cpc' = 0
    /\ chainResult' = [ret |-> IF default_spawn(given, spawnOk.default).ret
                                    = "Ok" THEN "Ok" ELSE "Err",
                       by |-> "default",
                       cmd |-> default_spawn(given, spawnOk.default).cmd]
    /\ UNCHANGED <<repo, given, spawnOk>>

NextChain ==
    \/ ConsultGithub
    \/ ConsultGitlab
    \/ ConsultTravis
    \/ DefaultSpawn

\* ------------------------------------------------------------------------
\* Job::get_possible_matrix_values   (src/src/ci/github.rs)
\* ------------------------------------------------------------------------

\* a serde_yaml::Value that is a string
Scalar(x) == [kind |-> "str", items |-> <<x>>, pairs |-> << >>]

\* a serde_yaml::Value that is a sequence of strings
Sequence(xs) == [kind |-> "seq", items |-> xs, pairs |-> << >>]

\* a serde_yaml::Value that is a mapping: its (key, val) pairs in file order
Mapping(ps) == [kind |-> "map", items |-> << >>, pairs |-> ps]

\* a key of a mapping: a string, or a value of another type (a number)
StrKey(x) == [kind |-> "str", name |-> x]
NumKey(x) == [kind |-> "num", name |-> x]

\* Option: None, and Some(x)
None == [some |-> FALSE, value |-> << >>]
Some(x) == [some |-> TRUE, value |-> x]

\* Value::as_sequence: Some(the elements) for a sequence only
as_sequence(v) ==
    IF v.kind = "seq"
    THEN Some([n \in 1..Len(v.items) |-> Scalar(v.items[n])])
    ELSE None

\* Value::as_mapping: Some(the pairs) for a mapping only
as_mapping(v) == IF v.kind = "map" THEN Some(v.pairs) ELSE None

\* Value::as_str on a key: Some(the string) for a string only
as_str(k) == IF k.kind = "str" THEN Some(k.name) ELSE None

\* ci/github.rs:84  var.split("."): the text between the separators, in
\* order; an empty text gives one empty part
RECURSIVE split(_)
split(text) ==
    IF text = << >> THEN <<"">>
    ELSE IF Head(text) = "." THEN <<"">> \o split(Tail(text))
    ELSE <<Head(text) \o split(Tail(text))[1]>> \o Tail(split(Tail(text)))

\* HashMap::insert on a map held as a set of [key, val]
insert(map, k, v) == {e \in map : e.key # k} \cup {[key |-> k, val |-> v]}

\* variant of DirectValue that returns the candidates in reverse order
DirectValue_Mut(data) ==
    <<[data |-> [n \in 1..Len(data) |-> data[Len(data) + 1 - n]],
       preconditions |-> {}]>>

\* ci/github.rs:88-93  the result for a directly declared axis
DirectValue(data) == <<[data |-> data, preconditions |-> {}]>>

\* variant of Promote that drops the scalar
Promote_Mut(val) == << >>

\* ci/github.rs:102-106  the data of an include entry's value: the elements
\* of a sequence, or the value alone in a list
Promote(val) ==
    IF as_sequence(val).some THEN as_sequence(val).value ELSE <<val>>

\* ci/github.rs:98-112  the loop over the pairs of one include entry, from
\* the state acc = [current_val, preconditions]
RECURSIVE ScanEntry(_, _, _)
ScanEntry(ps, axis, acc) ==
    IF ps = << >> THEN acc
    ELSE ScanEntry(Tail(ps), axis,
           IF as_str(Head(ps).key) = Some(axis)
           THEN [acc EXCEPT !.current_val = Some(Promote(Head(ps).val))]
           ELSE IF as_str(Head(ps).key).some
           THEN [acc EXCEPT !.preconditions =
                     insert(@, as_str(Head(ps).key).value, Head(ps).val)]
           ELSE acc)

\* ci/github.rs:95-120  the loop over the include list
RECURSIVE ScanInclude(_, _)
ScanInclude(inc, axis) ==
    IF inc = << >> THEN << >>
    ELSE (IF as_mapping(Head(inc)).some
          THEN LET r == ScanEntry(as_mapping(Head(inc)).value, axis,
                                  [current_val |-> None, preconditions |-> {}])
               IN IF r.current_val.some
                  THEN <<[data |-> r.current_val.value,
                          preconditions |-> r.preconditions]>>
                  ELSE << >>
          ELSE << >>)
         \o ScanInclude(Tail(inc), axis)

\* ci/github.rs:80-125  get_possible_matrix_values
get_possible_matrix_values(m, v) ==
    IF Len(split(v)) < 2 \/ split(v)[1] # "matrix" THEN None
    ELSE IF split(v)[2] \in DOMAIN m.elements
    THEN Some(DirectValue(m.elements[split(v)[2]]))
    ELSE IF m.include # << >> THEN Some(ScanInclude(m.include, split(v)[2]))
    ELSE None

\* the lists of at most n strings a directly declared axis can have
CandidateLists(n) ==
    UNION {[1..k -> {Scalar("a"), Scalar("b")}] : k \in 0..n}

\* the axes declared directly: none, os, or os and rust
InitialElements ==
    {<< >>}
    \cup {[k \in {"os"} |-> l] : l \in CandidateLists(MaxCandidates)}
    \cup {[k \in {"os", "rust"} |->
             IF k = "os" THEN l ELSE <<Scalar("stable")>>] :
          l \in CandidateLists(MaxCandidates)}

\* the entries an include list is made of
IncludeEntries ==
    {Mapping(<<[key |-> StrKey("os"), val |-> Scalar("a")]>>),
     Mapping(<<[key |-> StrKey("os"), val |-> Sequence(<<"a", "b">>)],
               [key |-> StrKey("rust"), val |-> Scalar("stable")]>>),
     Mapping(<<[key |-> StrKey("rust"), val |-> Sequence(<<"beta">>)],
               [key |-> StrKey("os"), val |-> Scalar("b")]>>),
     Mapping(<<[key |-> StrKey("rust"), val |-> Scalar("stable")]>>),
     Mapping(<<[key |-> StrKey("os"), val |-> Sequence(<< >>)]>>),
     Mapping(<<[key |-> NumKey("1"), val |-> Scalar("n")],
               [key |-> StrKey("os"), val |-> Scalar("a")]>>),
     Mapping(<< >>),
     Scalar("x")}

\* the references the function is called with
References ==
    {<<"matrix", ".", "os">>, <<"matrix", ".", "rust">>,
     <<"matrix", ".", "foo">>, <<"maatrix", ".", "foo">>, <<"matrix">>,
     <<"matrix", ".", "os", ".", "x">>, <<"os", ".", "matrix">>, << >>}

\* the state when the function is called
InitMatrix ==
    /\ mpc = "call"
    /\ matrix \in [elements : InitialElements,
                   include : UNION {[1..k -> IncludeEntries] :
                                      k \in 0..MaxInclude}]
    /\ var \in References
    /\ matrixResult = None

\* one call of job.get_possible_matrix_values(var)
Resolve ==
    /\ UNCHANGED besidesMatrix
    /\ mpc = "call"
    /\ matrixResult' = get_possible_matrix_values(matrix, var)
    /\ mpc' = "returned"
    /\ UNCHANGED <<matrix, var>>

NextMatrix == Resolve

\* ------------------------------------------------------------------------
\* extract_tarpaulin_commands   (src/src/ci/mod.rs)
\* ------------------------------------------------------------------------
\* A text is the sequence of its characters; the words cargo, test and
\* tarpaulin and the flag -f are each one element, as no regex of the
\* function matches a part of one of them.

\* the regex class \s, for the characters of the texts
IsSpace(c) == c \in {" ", "\n", "\t"}

\* ci/mod.rs:49  the class [\-a-zA-Z\d\\\s\$\{\}\."~\n]: the words (letters
\* and dashes), the backslash and whitespace are in it; ; and = are not
InClass(c) == c \in {"cargo", "test", "tarpaulin", "-f", "\\"} \/ IsSpace(c)

\* number of elements at the start of s that are whitespace
RECURSIVE SpaceRun(_)
SpaceRun(s) ==
    IF s # << >> /\ IsSpace(Head(s)) THEN 1 + SpaceRun(Tail(s)) ELSE 0

\* number of elements at the start of s that are in the class
RECURSIVE ClassRun(_)
ClassRun(s) ==
    IF s # << >> /\ InClass(Head(s)) THEN 1 + ClassRun(Tail(s)) ELSE 0

\* number of elements at the start of s before its first newline
RECURSIVE LineLength(_)
LineLength(s) ==
    IF s # << >> /\ Head(s) # "\n" THEN 1 + LineLength(Tail(s)) ELSE 0

\* the largest position of a newline among the first k elements of s, or 0
LastNewline(s, k) ==
    IF \E j \in 1..k : s[j] = "\n"
    THEN CHOOSE j \in 1..k : s[j] = "\n" /\ \A m \in (j + 1)..k : s[m] # "\n"
    ELSE 0

\* variant of FIX_LINES_replace_all that leaves the text as it is
FIX_LINES_replace_all_Mut(s) == s

\* ci/mod.rs:44-52  FIX_LINES.replace_all(input, " "): every match of
\* \\\s*\n, a backslash and the longest whitespace that ends in a newline,
\* becomes one blank
RECURSIVE FIX_LINES_replace_all(_)
FIX_LINES_replace_all(s) ==
    IF s = << >> THEN << >>
    ELSE LET nl == LastNewline(Tail(s), SpaceRun(Tail(s)))
         IN IF Head(s) = "\\" /\ nl > 0
            THEN <<" ">> \o FIX_LINES_replace_all(SubSeq(s, nl + 2, Len(s)))
            ELSE <<Head(s)>> \o FIX_LINES_replace_all(Tail(s))

\* variant of lines that does not split
lines_Mut(s) == <<s>>

\* ci/mod.rs:54  str::lines: the texts between the newlines; a newline at
\* the end of the text starts no line
RECURSIVE lines(_)
lines(s) ==
    IF s = << >> THEN << >>
    ELSE LET k == LineLength(s)
         IN IF k = Len(s) THEN <<s>>
            ELSE <<SubSeq(s, 1, k)>> \o lines(SubSeq(s, k + 2, Len(s)))

\* ci/mod.rs:49  TEST_CMD matched at the start of s: the number of elements
\* of the match, 0 for no match. cargo, \s+, test, then the longest run of
\* the class (it takes the \s* too), then (;?|..|&&|$), whose first
\* alternative always matches: a ; if one is next, else nothing
TEST_CMD_match(s) ==
    LET w == SpaceRun(Tail(s))
        body == SubSeq(s, w + 3, Len(s))
        c == ClassRun(body)
    IN IF Len(s) >= 3 /\ Head(s) = "cargo" /\ w >= 1 /\ Len(s) >= w + 2
          /\ s[w + 2] = "test"
       THEN w + 2 + c + (IF Len(body) > c /\ body[c + 1] = ";" THEN 1 ELSE 0)
       ELSE 0

\* ci/mod.rs:55  TEST_CMD.find_iter(s): the matches from left to right, each
\* search starting where the match before ended
RECURSIVE TEST_CMD_find_iter(_)
TEST_CMD_find_iter(s) ==
    IF s = << >> THEN << >>
    ELSE IF TEST_CMD_match(s) > 0
    THEN <<SubSeq(s, 1, TEST_CMD_match(s))>>
         \o TEST_CMD_find_iter(SubSeq(s, TEST_CMD_match(s) + 1, Len(s)))
    ELSE TEST_CMD_find_iter(Tail(s))

\* ci/mod.rs:56  m.as_str().replace("cargo test", "cargo tarpaulin"): every
\* occurrence of cargo, one blank, test
RECURSIVE replace(_)
replace(m) ==
    IF m = << >> THEN << >>
    ELSE IF Len(m) >= 3 /\ SubSeq(m, 1, 3) = <<"cargo", " ", "test">>
    THEN <<"cargo", " ", "tarpaulin">> \o replace(SubSeq(m, 4, Len(m)))
    ELSE <<Head(m)>> \o replace(Tail(m))

\* ci/mod.rs:54-58  the loop over the lines: per line its matches, rewritten
RECURSIVE CommandsOfLines(_)
CommandsOfLines(ls) ==
    IF ls = << >> THEN << >>
    ELSE LET found == TEST_CMD_find_iter(Head(ls))
         IN [n \in 1..Len(found) |-> replace(found[n])]
            \o CommandsOfLines(Tail(ls))

\* ci/mod.rs:42-60  extract_tarpaulin_commands
extract_tarpaulin_commands(text) ==
    CommandsOfLines(lines(FIX_LINES_replace_all(text)))

\* the pieces of text an input is made of
Pieces ==
    {<<"cargo", " ", "test">>, <<"cargo">>, <<"test">>, <<" ">>, <<"\n">>,
     <<"\\">>, <<";">>, <<"-f">>, <<"=">>}

\* the texts made of at most n pieces
RECURSIVE Texts(_)
Texts(n) ==
    IF n = 0 THEN {<< >>}
    ELSE Texts(n - 1) \cup {t \o q : t \in Texts(n - 1), q \in Pieces}

\* the state when the function is called
InitExtract ==
    /\ epc = "call"
    /\ input \in Texts(MaxPieces)
    /\ commands = << >>
    /\ again = << >>

\* extract_tarpaulin_commands(input)
Extract ==
    /\ UNCHANGED besidesExtract
    /\ epc = "call"
    /\ commands' = extract_tarpaulin_commands(input)
    /\ epc' = "extracted"
    /\ UNCHANGED <<input, again>>

\* extract_tarpaulin_commands on each string the first call returned
ExtractAgain ==
    /\ UNCHANGED besidesExtract
    /\ epc = "extracted"
    /\ again' = [n \in 1..Len(commands) |->
                    extract_tarpaulin_commands(commands[n])]
    /\ epc' = "again"
    /\ UNCHANGED <<input, commands>>

NextExtract ==
    \/ Extract
    \/ ExtractAgain

\* ------------------------------------------------------------------------
\* read_workflow   (src/src/ci/github.rs)
\* ------------------------------------------------------------------------
\* A HashMap is held as the sequence of its entries in the order its
\* iterator gives them, which is any order; every order is among the inputs.

\* a value of a step's with mapping: a string (its text, words and blanks)
\* or a value of another type
StrVal(text) == [str |-> TRUE, text |-> text]
NumVal(text) == [str |-> FALSE, text |-> text]

\* str::starts_with, on a text held as its parts
starts_with(text, prefix) ==
    Len(text) >= Len(prefix) /\ SubSeq(text, 1, Len(prefix)) = prefix

\* str::contains
contains(text, pat) ==
    \E k \in 0..(Len(text) - Len(pat)) : SubSeq(text, k + 1, k + Len(pat)) = pat

\* str::split_whitespace: the words between the whitespace, none empty
RECURSIVE split_whitespace(_)
split_whitespace(text) ==
    IF text = << >> THEN << >>
    ELSE IF IsSpace(Head(text)) THEN split_whitespace(Tail(text))
    ELSE <<Head(text)>> \o split_whitespace(Tail(text))

\* ci/github.rs:256-269  process_arg_string on the words: --color and the
\* word after it are left out
RECURSIVE SkipColor(_)
SkipColor(words) ==
    IF words = << >> THEN << >>
    ELSE IF Head(words) = "--color"
    THEN SkipColor(SubSeq(words, 3, Len(words)))
    ELSE <<Head(words)>> \o SkipColor(Tail(words))

process_arg_string(text) == SkipColor(split_whitespace(text))

\* HashMap::get on the entries: Some(value) or None
get(entries, key) ==
    IF \E n \in 1..Len(entries) : entries[n].key = key
    THEN Some(entries[CHOOSE n \in 1..Len(entries) : entries[n].key = key].val)
    ELSE None

\* Iterator::find on the steps: the position of the first step whose uses
\* starts with the prefix, 0 for None
find(steps, prefix) ==
    IF \E n \in 1..Len(steps) : starts_with(steps[n].uses, prefix)
    THEN CHOOSE n \in 1..Len(steps) :
           /\ starts_with(steps[n].uses, prefix)
           /\ \A m \in 1..(n - 1) : ~starts_with(steps[m].uses, prefix)
    ELSE 0

\* ci/github.rs:191-214  the arguments for the parameters of the coverage
\* step, in the order the mapping gives them; a value that is no string is
\* filtered out, an unknown key only logged
RECURSIVE WithArgs(_)
WithArgs(entries) ==
    IF entries = << >> THEN << >>
    ELSE LET e == Head(entries)
         IN (IF ~e.val.str THEN << >>
             ELSE IF e.key = "run-types"
             THEN <<"--run-types">> \o split_whitespace(e.val.text)
             ELSE IF e.key = "timeout"
             THEN <<"--timeout">> \o e.val.text
             ELSE IF e.key = "out-type" THEN <<"--out">>
             ELSE IF e.key \in {"args", "version"}
             THEN process_arg_string(e.val.text)
             ELSE << >>)
            \o WithArgs(Tail(entries))

\* ci/github.rs:237-247  the loop over the steps of a job without either
\* action: the commands extracted from every inline script that contains
\* cargo test, which are logged
RECURSIVE InlineCommands(_)
InlineCommands(steps) ==
    IF steps = << >> THEN << >>
    ELSE (IF contains(Head(steps).run, <<"cargo", " ", "test">>)
          THEN extract_tarpaulin_commands(Head(steps).run)
          ELSE << >>)
         \o InlineCommands(Tail(steps))

\* the command a job gives nothing for
NoCommand == [found |-> FALSE, args |-> << >>, subdir |-> FALSE]

\* ci/github.rs:185-248  the body of the loop for one job: the first step of
\* the coverage action; else the first step of the cargo action, used if its
\* command is test; else the inline scripts, whose commands are only logged
ReadJob(job, wd) ==
    IF find(job.steps, <<"actions-rs/tarpaulin">>) > 0
    THEN [found |-> TRUE,
          args |-> WithArgs(
                     job.steps[find(job.steps, <<"actions-rs/tarpaulin">>)].with),
          subdir |-> FALSE]
    ELSE IF find(job.steps, <<"actions-rs/cargo">>) > 0
    THEN LET with == job.steps[find(job.steps, <<"actions-rs/cargo">>)].with
         IN IF get(with, "command") = Some(StrVal(<<"test">>))
            THEN [found |-> TRUE,
                  args |-> IF get(with, "args").some
                              /\ get(with, "args").value.str
                           THEN process_arg_string(get(with, "args").value.text)
                           ELSE << >>,
                  subdir |-> wd]
            ELSE NoCommand
    ELSE LET logged == InlineCommands(job.steps)
         IN NoCommand

\* ci/github.rs:184-253  the loop over the jobs: the first job that gives a
\* command ends it with cmd.spawn(); Err(NotFound) after the last job. The
\* command comes with the arguments init_command gave it (ci/github.rs:151),
\* here the default ones
RECURSIVE read_workflow(_, _, _)
read_workflow(jobs, wd, ok) ==
    IF jobs = << >>
    THEN [ret |-> "NotFound", args |-> default_args, subdir |-> FALSE]
    ELSE IF ReadJob(Head(jobs), wd).found
    THEN [ret |-> IF ok THEN "Ok" ELSE "SpawnError",
          args |-> default_args \o ReadJob(Head(jobs), wd).args,
          subdir |-> ReadJob(Head(jobs), wd).subdir]
    ELSE read_workflow(Tail(jobs), wd, ok)

\* a step: [uses, with, run]
Step(uses, with, run) == [uses |-> uses, with |-> with, run |-> run]

Checkout == Step(<<"actions/checkout", "@v2">>, << >>, << >>)

\* a step of the coverage action with the entries e
CoverageStep(e) == Step(<<"actions-rs/tarpaulin", "@v0.1">>, e, << >>)

\* a step of the cargo action with the entries e
CargoStep(e) == Step(<<"actions-rs/cargo", "@v1">>, e, << >>)

\* a step with the inline script text
RunStep(text) == Step(<< >>, << >>, text)

RunTypes == [key |-> "run-types", val |-> StrVal(<<"Tests", " ", "Doctests">>)]
Timeout == [key |-> "timeout", val |-> StrVal(<<"120">>)]

\* the jobs a workflow is made of, each the sequence of its steps
JobShapes ==
    {[steps |-> <<Checkout, CoverageStep(<<RunTypes, Timeout>>)>>],
     [steps |-> <<Checkout, CoverageStep(<<Timeout, RunTypes>>)>>],
     [steps |-> <<CoverageStep(
                    <<[key |-> "args",
                       val |-> StrVal(<<"--color", " ", "always", " ", "--lib">>)],
                      [key |-> "out-type", val |-> StrVal(<<"Xml">>)],
                      [key |-> "timeout", val |-> NumVal(<<"120">>)],
                      [key |-> "foo", val |-> StrVal(<<"x">>)]>>)>>],
     [steps |-> <<Checkout,
                  CargoStep(<<[key |-> "command", val |-> StrVal(<<"test">>)],
                              [key |-> "args",
                               val |-> StrVal(<<"--all-features">>)]>>)>>],
     [steps |-> <<CargoStep(<<[key |-> "command",
                               val |-> StrVal(<<"build">>)]>>),
                  RunStep(<<"cargo", " ", "test", " ", "-f">>)>>],
     [steps |-> <<Checkout, RunStep(<<"cargo", " ", "test", " ", "-f">>)>>],
     [steps |-> <<Checkout, RunStep(<<"cargo", " ", "-f">>)>>]}

\* the sequences of at most n jobs
RECURSIVE JobLists(_)
JobLists(n) ==
    IF n = 0 THEN {<< >>}
    ELSE JobLists(n - 1)
         \cup {l \o <<j>> : l \in JobLists(n - 1), j \in JobShapes}

\* the state when read_workflow is called on a workflow that was parsed
InitWorkflow ==
    /\ wpc = "call"
    /\ workflow \in [jobs : JobLists(MaxJobs), working_directory : BOOLEAN]
    /\ wfSpawnOk \in BOOLEAN
    /\ wfResult = [ret |-> "none", args |-> << >>, subdir |-> FALSE]

\* ci/github.rs:175-254  one call of read_workflow
ReadWorkflow ==
    /\ UNCHANGED besidesWorkflow
    /\ wpc = "call"
    /\ wfResult' = read_workflow(workflow.jobs, workflow.working_directory,
                                 wfSpawnOk)
    /\ wpc' = "returned"
    /\ UNCHANGED <<workflow, wfSpawnOk>>

NextWorkflow == ReadWorkflow

\* ------------------------------------------------------------------------
\* Specifications
\* ------------------------------------------------------------------------
\* the state the variables of a machine have while it is not the one run
RunnerAtRest ==
    /\ proj = [setup |-> FALSE, teardown |-> FALSE]
    /\ gitMarker = FALSE
    /\ targetDir = FALSE
    /\ InitRunner

TaterAtRest ==
    /\ progressFile = [exists |-> FALSE, data |-> << >>]
    /\ passFile = << >>
    /\ failFile = << >>
    /\ dirs = [n \in 0..(MaxCrates - 1) |-> NoDir]
    /\ InitTaterVars

ChainAtRest ==
    /\ repo = [github |-> "absent", gitlab |-> "absent", travis |-> "absent"]
    /\ given = [jobs |-> FALSE, context_args |-> << >>, spec_args |-> << >>]
    /\ spawnOk = [github |-> TRUE, gitlab |-> TRUE, travis |-> TRUE,
                  default |-> TRUE]
    /\ InitChain

MatrixAtRest ==
    /\ matrix = [elements |-> << >>, include |-> << >>]
    /\ var = << >>
    /\ InitMatrix

ExtractAtRest ==
    /\ input = << >>
    /\ InitExtract

WorkflowAtRest ==
    /\ workflow = [jobs |-> << >>, working_directory |-> FALSE]
    /\ wfSpawnOk = TRUE
    /\ InitWorkflow

\* the machines other than the four first, at rest
OthersAtRest == ExtractAtRest /\ WorkflowAtRest

InitRunTest ==
    TaterAtRest /\ ChainAtRest /\ MatrixAtRest /\ OthersAtRest /\ InitRunner

InitTater ==
    RunnerAtRest /\ ChainAtRest /\ MatrixAtRest /\ OthersAtRest
    /\ InitTaterVars

InitSpawnTarpaulin ==
    RunnerAtRest /\ TaterAtRest /\ MatrixAtRest /\ OthersAtRest /\ InitChain

InitMatrixValues ==
    RunnerAtRest /\ TaterAtRest /\ ChainAtRest /\ OthersAtRest /\ InitMatrix

InitExtractCommands ==
    RunnerAtRest /\ TaterAtRest /\ ChainAtRest /\ MatrixAtRest
    /\ WorkflowAtRest /\ InitExtract

InitReadWorkflow ==
    RunnerAtRest /\ TaterAtRest /\ ChainAtRest /\ MatrixAtRest
    /\ ExtractAtRest /\ InitWorkflow

\* run_test alone
SpecRunTest == InitRunTest /\ [][NextRunner]_vars

\* run_tater alone, started MaxRuns times on the same output directory
SpecTater == InitTater /\ [][NextTater]_vars

\* the steps of the main thread of run_test other than the error of try_wait
MainThreadStep ==
    \/ CloneStep
    \/ SetupStep
    \/ SpawnStep
    \/ StdoutSpawn
    \/ StderrSpawn
    \/ PollExited
    \/ PollAlive
    \/ TeardownStep
    \/ JoinStdout
    \/ JoinStderr
    \/ WriteLog
    \/ ScanAndReturn

\* the main thread and the two reader threads are each scheduled again and
\* again; nothing makes the process exit, and nothing makes try_wait fail
FairRunTest ==
    /\ WF_vars(MainThreadStep)
    /\ WF_vars(StdoutEOF)
    /\ WF_vars(StderrEOF)

\* run_test is entered for a project that declares both snippets
InitRunTestFair ==
    /\ proj = [setup |-> TRUE, teardown |-> TRUE]
    /\ InitRunTest

\* run_test alone, with its threads scheduled fairly
SpecRunTestFair == InitRunTestFair /\ [][NextRunner]_vars /\ FairRunTest

\* one call of spawn_tarpaulin
SpecSpawnTarpaulin == InitSpawnTarpaulin /\ [][NextChain]_vars

\* one call of get_possible_matrix_values
SpecMatrixValues == InitMatrixValues /\ [][NextMatrix]_vars

\* one call of extract_tarpaulin_commands, and one more on what it returned
SpecExtractCommands == InitExtractCommands /\ [][NextExtract]_vars

\* one call of read_workflow
SpecReadWorkflow == InitReadWorkflow /\ [][NextWorkflow]_vars

\* ------------------------------------------------------------------------
\* Properties of run_test
\* ------------------------------------------------------------------------

\* number of "idle" samples at the end of s with nothing else between them
RECURSIVE TrailingIdle(_)
TrailingIdle(s) ==
    IF s = << >> \/ s[Len(s)] # "idle" THEN 0
    ELSE 1 + TrailingIdle(SubSeq(s, 1, Len(s) - 1))

\* number of "idle" samples of s after its last "busy" sample
RECURSIVE IdleSinceBusy(_)
IdleSinceBusy(s) ==
    IF s = << >> \/ s[Len(s)] = "busy" THEN 0
    ELSE (IF s[Len(s)] = "idle" THEN 1 ELSE 0)
         + IdleSinceBusy(SubSeq(s, 1, Len(s) - 1))

\* the ways run_test returns a value once the child was spawned
Returned == result \in {"Ok", "Failed", "Stalled", "Tarpaulin"}

\* C1 as stated: a child that is alive and was sampled idle on 5 consecutive
\* polls has been killed and run_test has returned Stalled at that 5th sample.
C1_StalledAtFifthIdle ==
    TrailingIdle(samples) >= 5 => (result = "Stalled" /\ tarp = "killed")

\* C1 amended: the child is killed and Stalled returned exactly at the poll
\* that takes the stall counter above 5, the 6th idle sample since the last
\* busy one (a poll without a sample neither counts nor resets); until then
\* the counter equals that number of idle samples and the loop goes on.
C1_StalledAtSixthIdle ==
    /\ time_doing_nothing = IdleSinceBusy(samples)
    /\ (result = "Stalled") <=> (IdleSinceBusy(samples) = 6)
    /\ result = "Stalled" =>
         /\ tarp = "killed"
         /\ rpc = "done"
         /\ samples[Len(samples)] = "idle"
    /\ (IdleSinceBusy(samples) < 6 /\ tarp = "running" /\ rpc = "wait") =>
         result = "none"

\* C1 witness: run_test has returned Stalled on the 6th idle sample
C1_Witness ==
    /\ result = "Stalled"
    /\ TrailingIdle(samples) = 6
    /\ tarp = "killed"

\* C3 as stated: once the child was spawned, the log file is written before
\* run_test returns, on the normal, the Stalled and the wait-error path.
C3_LogWrittenOnEveryReturn ==
    (rpc = "done" /\ Returned) => logFile

\* C4 as stated: once both readers were started, both readers have been
\* joined and the child reaped when run_test returns, on every path.
C4_AllJoinedOnEveryReturn ==
    (rpc = "done" /\ Returned) =>
        /\ stdout_reading = "joined"
        /\ stderr_reading = "joined"
        /\ tarp = "reaped"

\* ------------------------------------------------------------------------
\* Properties of run_tater
\* ------------------------------------------------------------------------

Last(s) == s[Len(s)]

IsPrefix(s, t) == Len(s) <= Len(t) /\ SubSeq(t, 1, Len(s)) = s

\* the project the loop body was last entered for, and what became of it
LastOut == IF visited = << >> THEN "none" ELSE Last(visited).out

\* the names of the visited projects that took the pass branch, in order
RECURSIVE PassedNames(_)
PassedNames(v) ==
    IF v = << >> THEN << >>
    ELSE (IF Head(v).out = "passed" THEN <<proj_name(Head(v).idx)>>
          ELSE << >>) \o PassedNames(Tail(v))

\* number of visited projects whose processing is over and did not pass
RECURSIVE NotPassed(_)
NotPassed(v) ==
    IF v = << >> THEN 0
    ELSE (IF Head(v).out \in {"failed", "skipped"} THEN 1 ELSE 0)
         + NotPassed(Tail(v))

\* the index this run resumed from
ResumedFrom == get_progress(atStart.progress)

\* C2 as stated: the project just run is treated as passed (pass branch,
\* name in the pass ledger, index advanced) iff its exit status is success,
\* whether or not the artifact was found.
C2_PassedIffExitSuccess ==
    pc = "check2" =>
        ((tarpStatus = "success") <=>
            /\ LastOut = "passed"
            /\ exit_index = i + 1
            /\ passFile # << >>
            /\ Last(passFile) = proj_name(i))

\* C5 as stated: no failure of one project ends the batch by a panic; the
\* program ends only by a return from run_tater.
C5_NoFailureEndsTheBatch ==
    pc = "exited" => exitKind \in {"normal", "interrupted"}

\* C6 as stated: the progress file is written after every project, so when
\* the run ends normally it holds the index the loop last computed.
C6_ProgressWrittenAfterEveryProject ==
    (exitKind = "normal" /\ LastOut \in {"passed", "failed"}) =>
        progressFile = WriteProgress(exit_index)

\* C6 amended: the progress file is written only when an interruption is
\* observed at a check, and then holds the index offered at that check (i
\* after the clone step, exit_index after the project); in every other state
\* of a run, its normal end included, the file is as it was at the start.
C6_ProgressWrittenOnlyOnInterruption ==
    /\ exitKind # "interrupted" => progressFile = atStart.progress
    /\ exitKind = "interrupted" =>
         /\ progressFile.exists
         /\ progressFile.data =
              to_string(IF LastOut \in {"passed", "failed"}
                        THEN exit_index ELSE i)
         /\ get_progress(progressFile) =
              (IF LastOut = "passed" THEN i + 1 ELSE i)

\* C6 witness: a run that started without a progress file was interrupted
\* after a passed project and left the next index in the file
C6_Witness ==
    /\ exitKind = "interrupted"
    /\ LastOut = "passed"
    /\ ~atStart.progress.exists
    /\ get_progress(progressFile) = i + 1

\* C7: a run that starts with persisted index k enters the loop body for
\* k, k+1, ... in list order and for nothing below k (for all of them when it
\* ends normally); with k > 0 the lines both ledgers had before the run are
\* still their first lines, with k = 0 the ledgers hold lines of this run
\* only.
C7_ResumeFromIndexAppends ==
    pc # "start" =>
      LET k == ResumedFrom IN
        /\ start_from = k
        /\ \A n \in 1..Len(visited) : visited[n].idx = k + n - 1
        /\ exitKind = "normal" =>
             Len(visited) = (IF k < Len(crates) THEN Len(crates) - k ELSE 0)
        /\ passFile = (IF k > 0 THEN atStart.pass ELSE << >>)
                      \o PassedNames(visited)
        /\ k > 0 => IsPrefix(atStart.fail, failFile)
        /\ k = 0 =>
             /\ Len(failFile) <= Len(visited)
             /\ \A n \in 1..Len(failFile) :
                  \E m \in 1..Len(visited) :
                      failFile[n] = proj_name(visited[m].idx)

\* C7 witness: a run resumed from index 1 with ledgers that had lines, ended
\* normally and appended a line to the pass ledger
C7_Witness ==
    /\ exitKind = "normal"
    /\ ResumedFrom = 1
    /\ atStart.pass # << >>
    /\ atStart.fail # << >>
    /\ visited # << >>
    /\ Len(passFile) > Len(atStart.pass)

\* C8 as stated: a project that succeeds (exit status success) is appended
\* to the pass ledger and i+1 is offered to the next check; every project
\* that fails, whatever the failure, adds one to the failure counter, adds
\* nothing to the pass ledger and has i offered to the next check.
C8_OutcomeBookkeeping ==
    /\ failures = NotPassed(visited)
    /\ pc = "check2" =>
         IF tarpStatus = "success"
         THEN /\ exit_index = i + 1
              /\ passFile # << >>
              /\ Last(passFile) = proj_name(i)
         ELSE exit_index = i

\* C9 as stated: when a run stops on an interruption, the persisted index is
\* not above any project that failed during the run, so the next run
\* processes that project before any later one.
C9_FailedRetriedAfterAnyInterruption ==
    exitKind = "interrupted" =>
        \A n \in 1..Len(visited) :
            visited[n].out = "failed" =>
                get_progress(progressFile) <= visited[n].idx

\* C9 amended: when the interruption is observed at the check right after
\* the failed project i, the persisted index is i; an interruption at a later
\* project persists an index above every project entered before it; and
\* every run enters the loop body first for the index it read from the
\* progress file.
C9_FailedRetriedWhenInterruptedRightAfter ==
    /\ (exitKind = "interrupted" /\ LastOut = "failed") =>
           /\ progressFile = WriteProgress(i)
           /\ get_progress(progressFile) = Last(visited).idx
    /\ exitKind = "interrupted" =>
           LET held == get_progress(progressFile)
           IN \A n \in 1..(Len(visited) - 1) : visited[n].idx < held
    /\ (pc # "start" /\ visited # << >>) =>
           visited[1].idx = get_progress(atStart.progress)

\* C9 witness: project 1 failed after project 0, the interruption was
\* observed right after it and the file, which said 0, now says 1
C9_Witness ==
    /\ exitKind = "interrupted"
    /\ LastOut = "failed"
    /\ i = 1
    /\ Len(visited) = 2
    /\ get_progress(progressFile) = 1

\* C10: after an interruption observed at the check that follows project i,
\* the progress file holds i+1 if i passed and i otherwise, the name of i is
\* the last line of the fail ledger, and the run is over with no project
\* above i entered.
C10_InterruptionAfterProject ==
    (exitKind = "interrupted" /\ LastOut \in {"passed", "failed"}) =>
        /\ pc = "exited"
        /\ progressFile.exists
        /\ progressFile.data =
             to_string(IF LastOut = "passed" THEN i + 1 ELSE i)
        /\ failFile # << >>
        /\ Last(failFile) = proj_name(i)
        /\ Last(visited).idx = i
        /\ \A n \in 1..Len(visited) : visited[n].idx <= i

\* C10 witness: the interruption was observed after project 0 passed: the
\* file says 1, project 0 is in both ledgers and project 1 was not entered
C10_Witness ==
    /\ exitKind = "interrupted"
    /\ LastOut = "passed"
    /\ i = 0
    /\ progressFile.data = to_string(1)
    /\ Last(failFile) = proj_name(0)
    /\ Last(passFile) = proj_name(0)

\* C11 as stated: the check for an interruption is made, and an interruption
\* acted on, only when the processing of a project has fully finished (its
\* outcome decided), never between the steps of one project, and never while
\* an external process is running.
C11_CheckOnlyAtProjectBoundaries ==
    (pc \in {"check1", "check2"} \/ exitKind = "interrupted") =>
        /\ child = "none"
        /\ LastOut \in {"passed", "failed"}

\* C11 amended: the check is made at two points of the loop body, and at
\* both no external process is running: after the clone step of project i,
\* before its coverage run (an interruption there persists i and leaves
\* project i unrun), and after the outcome of project i is decided and the
\* pass ledger updated (an interruption there persists exit_index); a child
\* that was spawned is always waited for to its end, never killed or left
\* behind when the program returns.
C11_ChecksBetweenProcesses ==
    /\ pc = "check1" => LastOut \in {"reused", "nonzero", "cloned"}
    /\ pc = "check2" => LastOut \in {"passed", "failed"}
    /\ pc \in {"check1", "check2"} => child = "none"
    /\ child # "none" => (pc \in {"cloning", "running"} /\ exitKind = "none")
    /\ pc = "cloning" => child = "git"
    /\ pc = "running" => child = "cargo"
    /\ exitKind = "interrupted" =>
         /\ child = "none"
         /\ offered # << >>
         /\ progressFile.data = to_string(Last(offered))
         /\ \/ /\ LastOut \in {"reused", "nonzero", "cloned"}
               /\ Last(offered) = i
            \/ /\ LastOut \in {"passed", "failed"}
               /\ Last(offered) = exit_index
               /\ LastOut = "passed" => Last(passFile) = proj_name(i)

\* C11 witness: the interruption was observed at the check after project 0
\* was cloned: 0 is persisted, the clone is kept and no coverage run was made
C11_Witness ==
    /\ exitKind = "interrupted"
    /\ LastOut = "cloned"
    /\ i = 0
    /\ dirs[0] = ClonedDir
    /\ tarpStatus = "none"
    /\ progressFile.data = to_string(0)

\* the names of the visited projects whose clone failed and left no directory
RECURSIVE SkippedNames(_)
SkippedNames(v) ==
    IF v = << >> THEN {}
    ELSE (IF Head(v).out = "skipped" THEN {proj_name(Head(v).idx)} ELSE {})
         \cup SkippedNames(Tail(v))

\* C12 as stated: at the normal end of the batch the failure counter is the
\* number of processed projects that did not pass, and a project whose clone
\* failed is counted and has its name in the fail ledger like any other
\* failed project.
C12_EveryFailureKindCounted ==
    exitKind = "normal" =>
        /\ failures = NotPassed(visited)
        /\ \A name \in SkippedNames(visited) :
             \E n \in 1..Len(failFile) : failFile[n] = name

\* C13: in every run, the first or a resumed one (which starts from the file
\* the run before it left), the indices passed to should_exit are never
\* below the index read from the progress file at the start of the run and
\* never go down from one check to the next, and the index the progress file
\* holds is never below the index read at the start: it is that index until
\* an interruption writes the index offered last.
C13_ResumeIndexNeverDecreases ==
    /\ pc = "start" => progressFile = atStart.progress
    /\ pc # "start" =>
         LET read == ResumedFrom
             held == get_progress(progressFile)
         IN /\ start_from = read
            /\ \A n \in 1..Len(offered) : offered[n] >= read
            /\ \A n \in 1..(Len(offered) - 1) : offered[n] <= offered[n + 1]
            /\ held >= read
            /\ exitKind = "interrupted" => held = Last(offered)
            /\ exitKind # "interrupted" => held = read

\* C13 witness: a resumed run that read index 1 offered 1 and then 2, was
\* interrupted and left 2 in the progress file
C13_Witness ==
    /\ runs = 2
    /\ ResumedFrom = 1
    /\ offered = <<1, 2>>
    /\ exitKind = "interrupted"
    /\ get_progress(progressFile) = 2

\* C14: whenever run_test has returned after the clone step succeeded or was
\* skipped (setup launch failure, Stalled, wait error, normal exit with
\* either status, or a panic that unwinds), proj_dir/target does not exist
\* and the guard is gone; a return as Git, before the guard exists, leaves
\* the directory as it was.
C14_TargetDeletedOnEveryReturn ==
    (rpc = "done" /\ result # "Git") => (~targetDir /\ ~guard)

\* C14 witness: the child had started its build and was killed as stalled:
\* run_test returned Stalled and target is gone
C14_Witness ==
    /\ rpc = "done"
    /\ result = "Stalled"
    /\ tarp = "killed"
    /\ samples # << >>
    /\ ~targetDir

\* C15: git is launched only for a project whose directory has no .git
\* marker; a directory with the marker is reused as it is; every project
\* whose coverage run failed still has its directory (with the marker if it
\* was cloned), so the run that resumes at it reuses it without cloning.
C15_NeverReCloned ==
    /\ child = "git" => ~dirs[i].git
    /\ LastOut \in {"cloning", "nonzero"} => ~dirs[i].git
    /\ LastOut = "reused" => dirs[i] = ClonedDir
    /\ \A n \in 1..Len(visited) :
         visited[n].out = "failed" => dirs[visited[n].idx].dir

\* C15 witness: project 0 was cloned and failed in the first run; the second
\* run resumed at 0 and reused the directory
C15_Witness ==
    /\ runs = 2
    /\ ResumedFrom = 0
    /\ visited # << >>
    /\ visited[1] = [idx |-> 0, out |-> "reused"]
    /\ dirs[0] = ClonedDir
    /\ \E n \in 1..Len(atStart.fail) : atStart.fail[n] = proj_name(0)

\* ------------------------------------------------------------------------
\* Properties of spawn_tarpaulin
\* ------------------------------------------------------------------------

\* the calls of the chain in their order
ChainOrder == Adapters \o <<"default">>

\* the calls are made in the order of the chain, each at most once
ConsultedInOrder ==
    /\ Len(consulted) <= Len(ChainOrder)
    /\ \A n \in 1..Len(consulted) : consulted[n].who = ChainOrder[n]

\* C16 as stated: the adapters are consulted in the order GitHub, GitLab,
\* Travis, one is consulted only if every earlier one returned not-found or
\* parse-error, the first adapter whose file yields an invocation wins, and
\* the default invocation is used only when none of the three yields one.
C16_FallThroughOnlyOnNotFoundOrParseError ==
    /\ ConsultedInOrder
    /\ \A n \in 2..Len(consulted) : \A m \in 1..(n - 1) :
         consulted[m].ret \in {"NotFound", "InvalidData"}
    /\ cpc = 0 =>
         \A n \in 1..Len(Adapters) :
            (/\ repo[Adapters[n]] = "command"
             /\ \A m \in 1..(n - 1) : repo[Adapters[m]] # "command")
            => chainResult.by = Adapters[n]

\* C16 amended: the adapters are consulted in the order GitHub, GitLab,
\* Travis; one is consulted only if every earlier one returned an error, of
\* any kind (not-found, parse-error, or the failed spawn of the invocation it
\* had built); the first adapter that returns a spawned process wins, with
\* its invocation; the default invocation (--jobs if given, the default
\* arguments, the batch and the project arguments, the environment layers)
\* is spawned only when all three returned an error, and its result is the
\* result of the chain.
C16_FirstSpawnedWins ==
    /\ ConsultedInOrder
    /\ \A n \in 2..Len(consulted) : \A m \in 1..(n - 1) :
         consulted[m].ret \in {"NotFound", "InvalidData", "SpawnError"}
    /\ \A n \in 1..Len(consulted) :
         (n <= Len(Adapters) /\ consulted[n].ret = "SpawnError") =>
             (repo[Adapters[n]] = "command" /\ ~spawnOk[Adapters[n]])
    /\ cpc = 0 =>
         /\ chainResult.ret \in {"Ok", "Err"}
         /\ chainResult.by = Last(consulted).who
         /\ (chainResult.ret = "Ok") <=> (Last(consulted).ret = "Ok")
         /\ \A n \in 1..Len(Adapters) :
              (/\ repo[Adapters[n]] = "command" /\ spawnOk[Adapters[n]]
               /\ \A m \in 1..(n - 1) :
                    ~(repo[Adapters[m]] = "command" /\ spawnOk[Adapters[m]]))
              => /\ chainResult.ret = "Ok"
                 /\ chainResult.by = Adapters[n]
                 /\ chainResult.cmd.args =
                      init_command(given).args \o ExtractedArgs(Adapters[n])
         /\ (\A n \in 1..Len(Adapters) :
               ~(repo[Adapters[n]] = "command" /\ spawnOk[Adapters[n]]))
              => /\ chainResult.by = "default"
                 /\ Len(consulted) = 4
                 /\ chainResult.cmd.args =
                      (IF given.jobs THEN <<"--jobs", "n">> ELSE << >>)
                      \o <<"tarpaulin", "--debug", "--color", "never">>
                      \o given.context_args \o given.spec_args
                 /\ chainResult.cmd.envs =
                      <<"RUST_LOG", "spec.env", "context.env">>
    /\ cpc # 0 => chainResult.ret = "none"

\* C16 witness: GitHub's invocation failed to spawn, GitLab's file did not
\* parse, Travis had no file, and the default invocation, with the batch and
\* the project arguments, was spawned
C16_Witness ==
    /\ cpc = 0
    /\ Len(consulted) = 4
    /\ consulted[1].ret = "SpawnError"
    /\ consulted[2].ret = "InvalidData"
    /\ consulted[3].ret = "NotFound"
    /\ chainResult.ret = "Ok"
    /\ chainResult.by = "default"
    /\ given.context_args # << >>
    /\ given.spec_args # << >>

\* ------------------------------------------------------------------------
\* Properties of get_possible_matrix_values
\* ------------------------------------------------------------------------

\* the reference matrix.X
MatrixRef(x) == <<"matrix", ".", x>>

\* the include entry e is a mapping with the string key x
Mentions(e, x) ==
    /\ e.kind = "map"
    /\ \E n \in 1..Len(e.pairs) : e.pairs[n].key = StrKey(x)

\* C17: for matrix.X with X declared directly with N candidates the function
\* returns Some of exactly one value, whose data is the N candidates in the
\* declared order and whose preconditions are empty, whatever the include
\* list holds.
C17_DirectAxisOneResult ==
    mpc = "returned" =>
        \A x \in DOMAIN matrix.elements :
            var = MatrixRef(x) =>
                /\ matrixResult.some
                /\ Len(matrixResult.value) = 1
                /\ matrixResult.value[1].data = matrix.elements[x]
                /\ matrixResult.value[1].preconditions = {}

\* C17 witness: os is declared directly with two candidates and an include
\* entry mentions os too; the one value returned has the two candidates
C17_Witness ==
    /\ mpc = "returned"
    /\ var = MatrixRef("os")
    /\ "os" \in DOMAIN matrix.elements
    /\ matrix.elements["os"] = <<Scalar("a"), Scalar("b")>>
    /\ \E n \in 1..Len(matrix.include) : Mentions(matrix.include[n], "os")
    /\ Len(matrixResult.value) = 1
    /\ matrixResult.value[1].data = <<Scalar("a"), Scalar("b")>>

\* the include entries that mention x, in the order of the list
MatchingEntries(inc, x) == SelectSeq(inc, LAMBDA e : Mentions(e, x))

\* the value the entry e gives for x
ValueOf(e, x) ==
    e.pairs[CHOOSE n \in 1..Len(e.pairs) : e.pairs[n].key = StrKey(x)].val

\* the value as a list: the elements of a sequence, any other value alone
AsList(v) ==
    IF v.kind = "seq" THEN [n \in 1..Len(v.items) |-> Scalar(v.items[n])]
    ELSE <<v>>

\* the keys and values of the entry e other than x, of every key type
OtherPairs(e, x) ==
    {[key |-> e.pairs[n].key.name, val |-> e.pairs[n].val] :
        n \in {m \in 1..Len(e.pairs) : e.pairs[m].key # StrKey(x)}}

\* the keys and values of the entry e other than x whose key is a string
OtherStringPairs(e, x) ==
    {[key |-> e.pairs[n].key.name, val |-> e.pairs[n].val] :
        n \in {m \in 1..Len(e.pairs) : /\ e.pairs[m].key # StrKey(x)
                                       /\ e.pairs[m].key.kind = "str"}}

\* the values returned, none for None
Results == IF matrixResult.some THEN matrixResult.value ELSE << >>

\* the axis names references are made to
AxisNames == {"os", "rust", "foo"}

\* C18 as stated: for matrix.X with X not declared directly and mentioned by
\* exactly k include entries, exactly k values are returned, in entry order,
\* one per mentioning entry; the data of each is the entry's value for X (a
\* scalar as a list of one) and its preconditions are exactly the entry's
\* other keys and values, never X.
C18_OneResultPerIncludeEntry ==
    mpc = "returned" =>
        \A x \in AxisNames :
            (var = MatrixRef(x) /\ x \notin DOMAIN matrix.elements) =>
                /\ Len(Results) = Len(MatchingEntries(matrix.include, x))
                /\ \A n \in 1..Len(Results) :
                     /\ Results[n].data =
                          AsList(ValueOf(MatchingEntries(matrix.include, x)[n],
                                         x))
                     /\ Results[n].preconditions =
                          OtherPairs(MatchingEntries(matrix.include, x)[n], x)
                     /\ \A e \in Results[n].preconditions : e.key # x

\* C18 amended: as C18, but the preconditions are exactly the entry's other
\* keys that are strings, with their values: a key of another type is left
\* out.
C18_OneResultPerIncludeEntryStringKeys ==
    mpc = "returned" =>
        \A x \in AxisNames :
            (var = MatrixRef(x) /\ x \notin DOMAIN matrix.elements) =>
                /\ Len(Results) = Len(MatchingEntries(matrix.include, x))
                /\ \A n \in 1..Len(Results) :
                     /\ Results[n].data =
                          AsList(ValueOf(MatchingEntries(matrix.include, x)[n],
                                         x))
                     /\ Results[n].preconditions =
                          OtherStringPairs(
                              MatchingEntries(matrix.include, x)[n], x)
                     /\ \A e \in Results[n].preconditions : e.key # x

\* C18 witness: of two include entries the first gives os as a scalar next
\* to a rust key and the second lacks os; one value is returned, the scalar
\* as a list of one, with rust as its precondition
C18_Witness ==
    /\ mpc = "returned"
    /\ var = MatrixRef("os")
    /\ "os" \notin DOMAIN matrix.elements
    /\ Len(matrix.include) = 2
    /\ Mentions(matrix.include[1], "os")
    /\ ~Mentions(matrix.include[2], "os")
    /\ matrix.include[2].kind = "map"
    /\ matrixResult.some
    /\ Len(matrixResult.value) = 1
    /\ matrixResult.value[1].data = <<Scalar("b")>>
    /\ matrixResult.value[1].preconditions =
         {[key |-> "rust", val |-> Sequence(<<"beta">>)]}

\* the reference has fewer than two dot-separated segments, or a first
\* segment other than matrix
NotAMatrixReference(v) ==
    \/ \A n \in 1..Len(v) : v[n] # "."
    \/ v[1] # "matrix"
    \/ v[2] # "."

\* C19 as stated: None is returned exactly for a reference with fewer than
\* two segments or a first segment other than matrix; for matrix.X with X
\* declared neither directly nor in any include entry, also when there is no
\* include entry at all, Some of the empty list is returned.
C19_NoneOnlyForBadReference ==
    mpc = "returned" =>
        /\ (~matrixResult.some) <=> NotAMatrixReference(var)
        /\ \A x \in AxisNames :
             (/\ var = MatrixRef(x)
              /\ x \notin DOMAIN matrix.elements
              /\ MatchingEntries(matrix.include, x) = << >>)
             => matrixResult = Some(<< >>)

\* C20 as stated: every value returned has a non-empty data, also for a
\* directly declared axis with an empty list and for an include entry whose
\* value for the axis is an empty sequence.
C20_DataNeverEmpty ==
    mpc = "returned" =>
        \A n \in 1..Len(Results) : Results[n].data # << >>

\* ------------------------------------------------------------------------
\* Further properties of run_test
\* ------------------------------------------------------------------------

\* C24: in every execution that spawned the coverage process, both reader
\* threads have been started when the main thread is at the wait loop, before
\* its first sleep and poll, and in every later state; while the main thread
\* is in the loop and the process is alive both readers are reading, so each
\* pipe is being drained.
C24_ReadersStartedBeforeWaitLoop ==
    /\ (rpc = "wait" \/ samples # << >> \/ tarp \in {"reaped", "killed"}) =>
         /\ stdout_reading # "none"
         /\ stderr_reading # "none"
    /\ (tarp # "none" /\ rpc \notin {"stdout_spawn", "stderr_spawn"}) =>
         /\ stdout_reading # "none"
         /\ stderr_reading # "none"
    /\ (rpc = "wait" /\ tarp = "running") =>
         /\ stdout_reading = "running"
         /\ stderr_reading = "running"

\* C24 witness: the main thread is at the loop before its first poll, the
\* process is alive and both readers are reading
C24_Witness ==
    /\ rpc = "wait"
    /\ samples = << >>
    /\ tarp = "running"
    /\ stdout_reading = "running"
    /\ stderr_reading = "running"

\* the polls that gave a CPU sample, in order
Sampled(s) == SelectSeq(s, LAMBDA x : x # "none")

\* C27: the stall counter is the number of idle samples since the last busy
\* one (plus one on an idle sample, zero on a busy one); run_test returns
\* Stalled only with the most recent samples an unbroken run of more than 5
\* idle ones, and then the process was killed; a process that exited is never
\* killed nor reported Stalled, and the value returned after it was reaped is
\* by its exit status.
C27_CounterFollowsSamples ==
    /\ time_doing_nothing = TrailingIdle(Sampled(samples))
    /\ result = "Stalled" =>
         /\ TrailingIdle(Sampled(samples)) > 5
         /\ Last(samples) = "idle"
         /\ tarp = "killed"
    /\ tarp = "killed" => result = "Stalled"
    /\ tarp \in {"exited", "reaped"} => result # "Stalled"
    /\ (rpc = "done" /\ tarp = "reaped" /\ result # "panic") =>
         result = ExitResult(status)

\* C27 witness: an idle sample, then two busy ones, then the process exited
\* with a failure status: the counter is 0 and run_test returned Failed
C27_Witness ==
    /\ rpc = "done"
    /\ samples = <<"idle", "busy", "busy">>
    /\ time_doing_nothing = 0
    /\ tarp = "reaped"
    /\ status = "failure"
    /\ result = "Failed"

\* C29: the teardown snippet is run only after the process was reaped; whether
\* it launched or failed to launch, the main thread goes on to the joins, the
\* log and the artifact, and the value run_test returns is Ok for the exit
\* status success and Failed otherwise, with the log written.
C29_TeardownFailureNeverEscalates ==
    /\ teardownRun # "none" =>
         /\ proj.teardown
         /\ tarp = "reaped"
         /\ rpc \in {"join_stdout", "join_stderr", "log", "scan", "done"}
    /\ (rpc = "done" /\ teardownRun # "none") =>
         result \in {"Ok", "Failed", "panic"}
    /\ (rpc = "done" /\ teardownRun # "none" /\ result # "panic") =>
         /\ (result = "Ok") <=> (status = "success")
         /\ (result = "Failed") <=> (status = "failure")
         /\ logFile
         /\ stdout_reading = "joined"
         /\ stderr_reading = "joined"

\* C29 witness: the teardown snippet failed to launch, the log was written,
\* the artifact relocated and run_test returned Ok
C29_Witness ==
    /\ rpc = "done"
    /\ teardownRun = "failed"
    /\ status = "success"
    /\ result = "Ok"
    /\ logFile
    /\ found_log

\* C30: with the threads scheduled fairly, from every state in which the
\* process was spawned and run_test has not come to its end, run_test comes
\* to its end (as Stalled exactly when it killed the process, by the exit
\* path when it reaped it), unless the process is still alive and some poll
\* gave no idle sample; so it ends whenever the process exits, and whenever
\* the process stays alive with every poll giving an idle sample.
C30_RunTestTerminates ==
    (tarp # "none" /\ rpc # "done") ~>
        \/ /\ rpc = "done"
           /\ (tarp = "killed") <=> (result = "Stalled")
           /\ tarp = "reaped" => result \in {"Ok", "Failed", "panic"}
        \/ /\ tarp = "running"
           /\ \E n \in 1..Len(samples) : samples[n] # "idle"

\* C30 witness: every poll gave an idle sample; run_test returned Stalled and
\* both readers came to the end of their streams
C30_Witness ==
    /\ rpc = "done"
    /\ result = "Stalled"
    /\ \A n \in 1..Len(samples) : samples[n] = "idle"
    /\ stdout_reading = "finished"
    /\ stderr_reading = "finished"

\* run_test returned on one of the paths that leave before the teardown
EarlyReturn == result \in {"Git", "Setup", "Stalled", "Tarpaulin"}

\* C31: once the main thread is past the teardown step, the teardown snippet
\* has been run (launched or tried to launch) exactly when the project
\* declares one and the wait loop saw the process exit, with either exit
\* status; when run_test returned Git, Setup, Stalled or Tarpaulin, or
\* panicked at the spawn, it has not been run, whether the setup snippet ran
\* or not.
C31_TeardownIffObservedExit ==
    /\ rpc # "teardown" =>
         ((teardownRun # "none") <=> (proj.teardown /\ tarp = "reaped"))
    /\ rpc = "teardown" => (teardownRun = "none" /\ tarp = "reaped")
    /\ tarp = "reaped" => status \in {"success", "failure"}
    /\ EarlyReturn => (teardownRun = "none" /\ tarp # "reaped")
    /\ (result = "panic" /\ tarp = "none") => teardownRun = "none"

\* C31 witness: the setup snippet ran, the process exited with a failure
\* status, the loop saw it, and the declared teardown snippet was launched
C31_Witness ==
    /\ proj.teardown
    /\ setupRun = "ran"
    /\ tarp = "reaped"
    /\ status = "failure"
    /\ teardownRun = "ran"
    /\ rpc = "join_stdout"

\* C32: one call of run_test has at most one coverage process, the one the
\* resolution of the chain returned: there is none before the resolution, and
\* the one it started is not running any more when run_test returns; as the
\* calls of run_test in a batch follow one another, at most one coverage
\* process started by them is running at any time.
C32_AtMostOneCoverageProcess ==
    /\ rpc \in {"clone", "setup", "spawn"} => tarp = "none"
    /\ rpc = "done" => tarp # "running"

\* ------------------------------------------------------------------------
\* Further properties of run_tater
\* ------------------------------------------------------------------------

CargoTest == <<"cargo", " ", "test">>
CargoTarpaulin == <<"cargo", " ", "tarpaulin">>

\* the part of text t from position a to position b
Part(t, a, b) == SubSeq(t, a, b)

\* f is made of blanks and flags only
IsFlags(f) == \A n \in 1..Len(f) : f[n] \in {" ", "-f"}

\* the text starts with the test keyword
StartsWithCargoTest(t) == Len(t) >= 3 /\ Part(t, 1, 3) = CargoTest

\* C21: for cargo test followed by flags the one string returned is cargo
\* tarpaulin followed by the same flags (none for cargo test alone); with a
\* ; after the flags the first string ends with that ; and has nothing of the
\* text after it; with a backslash and a newline between flags the one string
\* returned has the flags of both lines, a blank in place of the
\* continuation; with a bare newline after the flags the first string ends
\* before the newline.
C21_ExtractionExamples ==
    (epc # "call" /\ StartsWithCargoTest(input)) =>
        /\ IsFlags(Part(input, 4, Len(input))) =>
             commands = <<CargoTarpaulin \o Part(input, 4, Len(input))>>
        /\ \A k \in 4..Len(input) :
             (input[k] = ";" /\ IsFlags(Part(input, 4, k - 1))) =>
                 /\ commands # << >>
                 /\ commands[1] = CargoTarpaulin \o Part(input, 4, k)
        /\ \A k \in 4..(Len(input) - 1) :
             (/\ input[k] = "\\"
              /\ input[k + 1] = "\n"
              /\ IsFlags(Part(input, 4, k - 1))
              /\ IsFlags(Part(input, k + 2, Len(input)))) =>
                 commands = <<CargoTarpaulin \o Part(input, 4, k - 1)
                              \o <<" ">> \o Part(input, k + 2, Len(input))>>
        /\ \A k \in 4..Len(input) :
             (input[k] = "\n" /\ IsFlags(Part(input, 4, k - 1))) =>
                 /\ commands # << >>
                 /\ commands[1] = CargoTarpaulin \o Part(input, 4, k - 1)

\* C21 witness: cargo test, a backslash, a newline and a flag gave the one
\* string cargo tarpaulin, a blank and the flag
C21_Witness ==
    /\ epc = "extracted"
    /\ input = CargoTest \o <<"\\", "\n", "-f">>
    /\ commands = <<CargoTarpaulin \o <<" ", "-f">>>>

\* C26 as stated: whenever the first call returned at least one string, the
\* function returns no match for any string it returned.
C26_NoMatchInOwnOutput ==
    (epc = "again" /\ commands # << >>) =>
        \A n \in 1..Len(again) : again[n] = << >>

\* the matches of TEST_CMD in the lines of the text, in line order
RECURSIVE MatchesOfLines(_)
MatchesOfLines(ls) ==
    IF ls = << >> THEN << >>
    ELSE TEST_CMD_find_iter(Head(ls)) \o MatchesOfLines(Tail(ls))

\* C28 as stated: one string is returned per match, in line order; every one
\* starts with cargo tarpaulin and no longer has the matched cargo .. test
\* keyword, also when cargo and test were separated by several whitespace
\* characters or by a folded continuation.
C28_KeywordAlwaysRewritten ==
    epc # "call" =>
        /\ Len(commands)
             = Len(MatchesOfLines(lines(FIX_LINES_replace_all(input))))
        /\ \A n \in 1..Len(commands) :
             /\ Len(commands[n]) >= 3
             /\ Part(commands[n], 1, 3) = CargoTarpaulin
             /\ TEST_CMD_match(commands[n]) = 0

\* ------------------------------------------------------------------------
\* Properties of read_workflow
\* ------------------------------------------------------------------------

\* the job has a step of the coverage action
HasCoverageStep(job) == find(job.steps, <<"actions-rs/tarpaulin">>) > 0

\* the job has a step of the cargo action whose command is test
HasCargoTestStep(job) ==
    \E n \in 1..Len(job.steps) :
        /\ starts_with(job.steps[n].uses, <<"actions-rs/cargo">>)
        /\ get(job.steps[n].with, "command") = Some(StrVal(<<"test">>))

\* the parameters of the first coverage step of the job, as a set
CoverageParameters(job) ==
    LET with == job.steps[find(job.steps, <<"actions-rs/tarpaulin">>)].with
    IN {with[n] : n \in 1..Len(with)}

\* C22 as stated: when the job read_workflow takes up has a coverage step
\* with the parameters run-types = "Tests Doctests" and timeout = "120", the
\* arguments of the command built have --run-types Tests Doctests --timeout
\* 120 one after the other, in whatever order the mapping gives the two
\* parameters.
C22_RunTypesThenTimeout ==
    (/\ wpc = "returned"
     /\ workflow.jobs # << >>
     /\ HasCoverageStep(workflow.jobs[1])
     /\ CoverageParameters(workflow.jobs[1]) = {RunTypes, Timeout}) =>
        contains(wfResult.args,
                 <<"--run-types", "Tests", "Doctests", "--timeout", "120">>)

\* the commands extracted from the inline scripts of the jobs, in job order
RECURSIVE ScriptCommands(_)
ScriptCommands(jobs) ==
    IF jobs = << >> THEN << >>
    ELSE InlineCommands(Head(jobs).steps) \o ScriptCommands(Tail(jobs))

\* C23 as stated: when no job of the workflow has a coverage step or a cargo
\* step with the command test, and the inline script of some step gives a
\* command, read_workflow does not return not-found: it builds the command
\* from the first of the extracted commands, the words after cargo
\* tarpaulin, and spawns it.
C23_InlineScriptFallback ==
    (/\ wpc = "returned"
     /\ \A n \in 1..Len(workflow.jobs) :
          /\ ~HasCoverageStep(workflow.jobs[n])
          /\ ~HasCargoTestStep(workflow.jobs[n])
     /\ ScriptCommands(workflow.jobs) # << >>) =>
        /\ wfResult.ret # "NotFound"
        /\ wfResult.args =
             default_args
             \o Tail(Tail(split_whitespace(ScriptCommands(workflow.jobs)[1])))

====
